---- MODULE Spec2Model ----
(***************************************************************************)
(* A model of cloud-autopkg-runner: the asynchronous command runner        *)
(* (shell.py run_cmd), the two-phase recipe run and the trust-info state   *)
(* of a Recipe (recipe.py), and the metadata cache file                    *)
(* (metadata_cache.py).  A coroutine is modelled by its segments between   *)
(* awaits: one action resumes a suspended coroutine and runs it, through   *)
(* every synchronous call it makes, up to its next await or its end.       *)
(***************************************************************************)
EXTENDS Integers, Sequences, FiniteSets, TLC

(***************************************************************************)
(* Bounds and input sets                                                   *)
(***************************************************************************)
\* Longest downloaded_items list the tool writes into a report.
MaxItems == 2

\* Recipe file names of a batch, concurrent callers of one Recipe's trust
\* methods, and direct callers of run_cmd.
Recipes == {"A.recipe", "B.recipe"}
Callers == {"t1", "t2"}
Direct == {"c1"}
Slots == Recipes \cup Callers \cup Direct

\* Exit statuses a process can end with on its own: asyncio reports death
\* by signal N as -N, so -1 is the status of a process ended by SIGHUP.
ExitCodes == {0, 1, -1}
\* What a process wrote to <<stdout, stderr>>.
Outputs == {<<"", "">>, <<"out", "err">>}

(***************************************************************************)
(* State                                                                   *)
(***************************************************************************)
VARIABLES
    alive,       \* FALSE once signal_handler has called sys.exit
    cmd,         \* per slot: the suspended run_cmd frame (pc, args)
    proc,        \* per slot: the subprocess run_cmd spawned last
    hres,        \* per direct caller: what run_cmd returned or raised
    hist,        \* per direct caller: the event that ended run_cmd
    todo,        \* process_recipe_list: the recipes still to run, in order
    batch,       \* process_recipe_list: "looping", "returned" or "raised"
    runpc,       \* per recipe: where its run() is
    output,      \* per recipe: run()'s local output, the check-phase report
    result,      \* per recipe: what run() returned or raised
    reportFile,  \* per recipe: the report plist the tool wrote last
    cacheFile,   \* the metadata cache file
    fs,          \* per path: the downloaded file
    clock,       \* datetime.now()
    log,         \* per recipe: the calls of its run(), in their order
    trusted,     \* self._trusted, by the name the code assigned
    tpc,         \* per caller: "idle", or the method it is suspended in
    tret,        \* per caller: what its last call returned or raised
    fresh,       \* an update has returned and no verify_trust_info() was called since
    nverify,     \* verify-trust-info invocations since the last update returned
    expect,      \* the entry saved last under each name (names present at first too)
    lastLoad,    \* the last call of load_metadata_cache and what it did
    lastSave,    \* the last call of save_metadata_cache and what it did
    nsaves,      \* the number of calls of save_metadata_cache so far
    wpc,         \* per writer process: where its save_metadata_cache is
    wstored,     \* per writer process: stored_metadata, the document it loaded
    wlog,        \* the file operations of the writer processes, in their order
    dcache,      \* create_dummy_files: its argument cache
    dlist,       \* create_dummy_files: its argument recipe_list
    dhist,       \* the file system before and after each call of create_dummy_files
    overrides,   \* per override directory: the recipe files it holds
    built,       \* process_recipe_list: recipes, as <<name, directory>> of each path
    supplied,    \* the recipe names of recipe_list, each a relative path
    wrote        \* per supplied name: the key and the entry its run() has stored

cmdVars == <<cmd, proc>>
directVars == <<hres, hist>>
runVars == <<todo, batch, runpc, output, result, reportFile, cacheFile, fs, clock, log>>
trustVars == <<trusted, tpc, tret, fresh, nverify>>
cacheVars == <<expect, lastLoad, lastSave, nsaves>>
writerVars == <<wpc, wstored, wlog>>
dummyVars == <<dcache, dlist, dhist>>
storeVars == <<cacheVars, writerVars, dummyVars>>
batchVars == <<overrides, built, supplied, wrote>>
vars == <<alive, cmd, proc, hres, hist, todo, batch, runpc, output, result,
          reportFile, cacheFile, fs, clock, log, trusted, tpc, tret, fresh, nverify,
          expect, lastLoad, lastSave, nsaves, wpc, wstored, wlog,
          dcache, dlist, dhist, overrides, built, supplied, wrote>>

(***************************************************************************)
(* shell.py: run_cmd                                                       *)
(***************************************************************************)
\* returncode: int = -1  (the value the timeout branch returns)
TimeoutRC == -1
\* proc.kill() sends SIGKILL; the killed process ends with status -9
SIGKILL == 9

TimeoutMsg == "Command timed out after {timeout} seconds."

NoArgs == [form |-> "list", argv |-> "", check |-> FALSE, capture |-> FALSE,
           timeout |-> FALSE]
IdleCmd == [pc |-> "idle", args |-> NoArgs]
NoProc == [st |-> "none", argv |-> "", code |-> 0, reaped |-> FALSE,
           eof |-> FALSE, out |-> "", err |-> "", sig |-> "none"]

\* The values of a finished call: (returncode, stdout, stderr), or an
\* exception with its __cause__.
NoRes == [kind |-> "none", rc |-> 0, out |-> "", err |-> "", exc |-> "",
          cause |-> "", msg |-> ""]
Ret(rc, out, err) == [kind |-> "ret", rc |-> rc, out |-> out, err |-> err,
                      exc |-> "", cause |-> "", msg |-> ""]
Raise(exc, cause, msg) == [kind |-> "exc", rc |-> 0, out |-> "", err |-> "",
                           exc |-> exc, cause |-> cause, msg |-> msg]

\* Python's exception classes, as far as run_cmd's except clauses tell them
\* apart.
Bases(exc) ==
    CASE exc = "FileNotFoundError" -> {"FileNotFoundError", "OSError", "Exception", "BaseException"}
      [] exc = "PermissionError" -> {"PermissionError", "OSError", "Exception", "BaseException"}
      [] exc = "ProcessLookupError" -> {"ProcessLookupError", "OSError", "Exception", "BaseException"}
      [] exc = "TimeoutError" -> {"TimeoutError", "OSError", "Exception", "BaseException"}
      [] exc = "ValueError" -> {"ValueError", "Exception", "BaseException"}
      [] exc = "KeyError" -> {"KeyError", "Exception", "BaseException"}
      [] exc = "TypeError" -> {"TypeError", "Exception", "BaseException"}
      [] exc = "CancelledError" -> {"CancelledError", "BaseException"}
      [] exc = "AutoPkgRunnerException" -> {"AutoPkgRunnerException", "BaseException"}
      [] OTHER -> {exc, "BaseException"}

IsA(exc, cls) == cls \in Bases(exc)

\* What create_subprocess_exec can do: spawn the process, or raise.
SpawnErrors == {"FileNotFoundError", "PermissionError", "ValueError"}

\* The arguments of a direct call.
ArgSpace == [form : {"list", "str", "badstr"}, argv : {"cmd"},
             check : BOOLEAN, capture : BOOLEAN, timeout : BOOLEAN]

\* Lines 68-78: a command string is split with shlex, which raises
\* ValueError on an unbalanced quote.
TokenizeFails(a) == a.form = "badstr"
TokenizeError == Raise("AutoPkgRunnerException", "ValueError", "Invalid command string")

\* Faulty variant: the outer except clauses swallow an OSError and return
\* the initial return code.
M_HandleSpawnError(exc) ==
    IF IsA(exc, "FileNotFoundError")
    THEN Raise("AutoPkgRunnerException", exc, "Command not found")
    ELSE IF IsA(exc, "OSError")
    THEN Ret(TimeoutRC, "", "")
    ELSE IF IsA(exc, "Exception")
    THEN Raise("AutoPkgRunnerException", exc, "Unexpected error running command")
    ELSE Raise(exc, "", "")

\* Lines 123-132: the outer except clauses, in their order.
HandleSpawnError(exc) ==
    IF IsA(exc, "FileNotFoundError")
    THEN Raise("AutoPkgRunnerException", exc, "Command not found")
    ELSE IF IsA(exc, "OSError")
    THEN Raise("AutoPkgRunnerException", exc, "OS error running command")
    ELSE IF IsA(exc, "Exception")
    THEN Raise("AutoPkgRunnerException", exc, "Unexpected error running command")
    ELSE Raise(exc, "", "")

\* Faulty variant: the gate of lines 134-141 with check left out of the test.
M_Gate(a, rc, out, err) ==
    IF rc # 0
    THEN Raise("AutoPkgRunnerException", "", "Command failed with exit code")
    ELSE Ret(rc, out, err)

\* Lines 134-146: the check gate and the normal return.
Gate(a, rc, out, err) ==
    IF a.check /\ rc # 0
    THEN Raise("AutoPkgRunnerException", "", "Command failed with exit code")
    ELSE Ret(rc, out, err)

\* Faulty variant: a signal that the process survives.
M_Kill(p) == [p EXCEPT !.sig = "KILL"]

\* proc.kill(): SIGKILL ends a running process; for one that is already
\* gone the call does nothing or raises ProcessLookupError, which is passed.
\* sig takes down that kill() was called.
Kill(p) == IF p.st = "running"
           THEN [p EXCEPT !.st = "exited", !.code = -SIGKILL, !.sig = "KILL"]
           ELSE [p EXCEPT !.sig = "KILL"]

\* wait_for(proc.communicate()) or wait_for(proc.wait()) has its result:
\* the exit is known to the loop and, when output is captured, both pipes
\* have reached end of file.
WaitComplete(a, p) == p.st = "exited" /\ p.reaped /\ (a.capture => p.eof)

\* Lines 98-106 and 121-146: the wait returned.
OnExit(a, p) ==
    [ev |-> "exit", raw |-> "", proc |-> p,
     res |-> IF a.capture THEN Gate(a, p.code, p.out, p.err)
             ELSE Gate(a, p.code, "", "")]

\* Faulty variant: the timeout branch falls through to the check gate.
M_OnTimeout(a, p) ==
    [ev |-> "timeout", raw |-> "TimeoutError",
     proc |-> IF ~p.reaped THEN Kill(p) ELSE p,
     res |-> Gate(a, TimeoutRC, "", TimeoutMsg)]

\* Lines 108-119: the wait timed out.
OnTimeout(a, p) ==
    [ev |-> "timeout", raw |-> "TimeoutError",
     proc |-> IF ~p.reaped THEN Kill(p) ELSE p,
     res |-> Ret(TimeoutRC, "", TimeoutMsg)]

\* Lines 86-95 and 123-132: create_subprocess_exec raised.
OnSpawnError(a, p, exc) ==
    [ev |-> "spawnfail", raw |-> exc, proc |-> p, res |-> HandleSpawnError(exc)]

\* Faulty variant: wait_for is called with no timeout.
M_TimerArmed(a) == FALSE

\* asyncio.wait_for(..., timeout=timeout) sets a timer unless timeout is None.
TimerArmed(a) == a.timeout

\* Every way the run_cmd frame suspended in slot c can end now: the event,
\* what it returns or raises, and what it did to the subprocess.  The
\* timer of wait_for races with the completion of the wait, and while the
\* timed-out wait is being cancelled the process may exit and be reaped.
Finishings(c) ==
    LET a == cmd[c].args
        p == proc[c]
    IN  CASE cmd[c].pc = "spawning" ->
               {OnSpawnError(a, p, e) : e \in SpawnErrors}
          [] cmd[c].pc = "waiting" ->
               (IF WaitComplete(a, p) THEN {OnExit(a, p)} ELSE {})
               \cup (IF TimerArmed(a) THEN {OnTimeout(a, p)} ELSE {})
          [] OTHER -> {}

\* The frame a call of run_cmd suspends in first: awaiting
\* create_subprocess_exec.
Spawning(a) == [pc |-> "spawning", args |-> a]

\* create_subprocess_exec returns a running process; run_cmd goes on to
\* await its output or its exit.
Spawned(c) ==
    /\ cmd[c].pc = "spawning"
    /\ cmd' = [cmd EXCEPT ![c].pc = "waiting"]
    /\ proc' = [proc EXCEPT ![c] = [NoProc EXCEPT !.st = "running",
                                                  !.argv = cmd[c].args.argv]]

\* The operating system: the process ends by itself; a descendant may keep
\* its pipes open.
Exits(c, code, o, eof) ==
    /\ proc[c].st = "running"
    /\ proc' = [proc EXCEPT ![c] = [@ EXCEPT !.st = "exited", !.code = code,
                                    !.out = o[1], !.err = o[2], !.eof = eof]]

\* The event loop's child watcher learns of the exit: proc.returncode is set.
Reap(c) ==
    /\ proc[c].st = "exited" /\ ~proc[c].reaped
    /\ proc' = [proc EXCEPT ![c].reaped = TRUE]
    /\ UNCHANGED <<alive, storeVars, batchVars, cmd, directVars, runVars, trustVars>>

\* The last holder of the pipes closes them.
PipesClose(c) ==
    /\ proc[c].st = "exited" /\ ~proc[c].eof
    /\ proc' = [proc EXCEPT ![c].eof = TRUE]
    /\ UNCHANGED <<alive, storeVars, batchVars, cmd, directVars, runVars, trustVars>>

\* CancelledError is thrown into the await run_cmd is suspended at.  It is
\* a BaseException: no except clause of run_cmd catches it, and the frame
\* unwinds without touching the subprocess.
Cancellable(c) == cmd[c].pc \in {"spawning", "waiting"}
Unwound(f) == [c \in Slots |-> IF c \in f THEN IdleCmd ELSE cmd[c]]

(***************************************************************************)
(* Direct calls of run_cmd (any arguments)                                 *)
(***************************************************************************)
NoHist == [ev |-> "none", raw |-> "", args |-> NoArgs]

\* await run_cmd(cmd, cwd, check, capture_output, timeout)
DirectCall(c) ==
    /\ alive /\ cmd[c].pc = "idle" /\ hres[c].kind = "none"
    /\ \E a \in ArgSpace :
         IF TokenizeFails(a)
         THEN /\ hres' = [hres EXCEPT ![c] = TokenizeError]
              /\ hist' = [hist EXCEPT ![c] = [ev |-> "tokenize", raw |-> "ValueError", args |-> a]]
              /\ UNCHANGED cmd
         ELSE /\ cmd' = [cmd EXCEPT ![c] = Spawning(a)]
              /\ UNCHANGED <<hres, hist>>
    /\ UNCHANGED <<alive, storeVars, batchVars, proc, runVars, trustVars>>

\* run_cmd returns or raises to its direct caller.
DirectFinish(c) ==
    /\ alive
    /\ \E f \in Finishings(c) :
         /\ hres' = [hres EXCEPT ![c] = f.res]
         /\ hist' = [hist EXCEPT ![c] = [ev |-> f.ev, raw |-> f.raw, args |-> cmd[c].args]]
         /\ proc' = [proc EXCEPT ![c] = f.proc]
    /\ cmd' = [cmd EXCEPT ![c] = IdleCmd]
    /\ UNCHANGED <<alive, storeVars, batchVars, runVars, trustVars>>

\* The task awaiting run_cmd is cancelled.
DirectCancel(c) ==
    /\ alive /\ Cancellable(c)
    /\ cmd' = Unwound({c})
    /\ hres' = [hres EXCEPT ![c] = Raise("CancelledError", "", "")]
    /\ hist' = [hist EXCEPT ![c] = [ev |-> "cancel", raw |-> "CancelledError", args |-> cmd[c].args]]
    /\ UNCHANGED <<alive, storeVars, batchVars, proc, runVars, trustVars>>

(***************************************************************************)
(* The files the program shares with the tool                              *)
(***************************************************************************)
Paths == {"p1", "p2"}
\* A downloaded item of a report: its download_path, or "nopath" for an
\* item that has no download_path key.
Items == Paths \cup {"nopath"}

Range(s) == {s[i] : i \in DOMAIN s}
\* The downloaded_items lists a report can hold: distinct items, in order.
ItemLists == {s \in UNION {[1..k -> Items] : k \in 0..MaxItems} :
                 \A i, j \in DOMAIN s : i # j => s[i] # s[j]}

\* The consolidated report, as far as run() reads it, and the invocation
\* that wrote the report file it was compiled from.
NoReport == [phase |-> "none", items |-> <<>>]

\* A file: its size and its com.github.autopkg.etag and
\* com.github.autopkg.last-modified attributes (NoAttr: not set).
NoAttr == "<unset>"
Absent == [exists |-> FALSE, size |-> 0, etag |-> NoAttr, lm |-> NoAttr]
Fetched == [exists |-> TRUE, size |-> 3, etag |-> "e1", lm |-> "m1"]
Bare == [exists |-> TRUE, size |-> 3, etag |-> NoAttr, lm |-> NoAttr]
Rewritten == [exists |-> TRUE, size |-> 5, etag |-> "e2", lm |-> "m2"]

(***************************************************************************)
(* metadata_cache.py: the cache file                                       *)
(***************************************************************************)
EmptyMap == [n \in {} |-> 0]
\* Faulty variant: the new document holds the one entry.
M_Put(m, k, v) == [n \in {k} |-> v]

\* new_metadata = stored_metadata.copy(); new_metadata[recipe_name] = metadata
Put(m, k, v) == [n \in DOMAIN m \cup {k} |-> IF n = k THEN v ELSE m[n]]

\* json.dumps(obj, indent=2, sort_keys=True) writes the members of every
\* object in the order of their keys: the recipe names of the document,
\* the keys of a RecipeCache, the keys of a DownloadMetadata.  The text of
\* an object is kept as the sequence of its <<key, value>> members.
RecipeOrder == <<"A", "A.recipe", "B", "B.recipe">>
FieldOrder == <<"etag", "file_path", "file_size", "last_modified">>
Pairs(f, order) ==
    LET ks == SelectSeq(order, LAMBDA k : k \in DOMAIN f)
    IN  [i \in DOMAIN ks |-> <<ks[i], f[ks[i]]>>]
\* Faulty variant: the etag of a record is not written.
M_DumpsEntry(e) ==
    << <<"metadata", [i \in DOMAIN e.metadata |->
                         Pairs(e.metadata[i], <<"file_path", "file_size", "last_modified">>)]>>,
       <<"timestamp", e.timestamp>> >>

DumpsEntry(e) ==
    << <<"metadata", [i \in DOMAIN e.metadata |-> Pairs(e.metadata[i], FieldOrder)]>>,
       <<"timestamp", e.timestamp>> >>
Dumps(m) == Pairs([n \in DOMAIN m |-> DumpsEntry(m[n])], RecipeOrder)

\* json.loads makes a dict of an object: one key per name, the value of
\* the last member of that name.
Object(pairs) ==
    [k \in {pairs[i][1] : i \in DOMAIN pairs} |->
        pairs[CHOOSE i \in DOMAIN pairs :
                  /\ pairs[i][1] = k
                  /\ \A j \in DOMAIN pairs : pairs[j][1] = k => j <= i][2]]
LoadsEntry(pairs) ==
    LET o == Object(pairs)
    IN  [timestamp |-> o["timestamp"],
         metadata |-> [i \in DOMAIN o["metadata"] |-> Object(o["metadata"][i])]]
Loads(text) ==
    LET o == Object(text)
    IN  [n \in DOMAIN o |-> LoadsEntry(o[n])]

\* The backing file: absent, text that is not JSON, JSON text that is not
\* an object (null, a number, a list of scalars, the empty list, a
\* non-empty string), or the text of a JSON object.
NoFile == [kind |-> "absent", text |-> <<>>]
NotJson == [kind |-> "notjson", text |-> <<>>]
JsonNull == [kind |-> "null", text |-> <<>>]
JsonNumber == [kind |-> "number", text |-> <<>>]
JsonScalars == [kind |-> "scalars", text |-> <<>>]
JsonEmptyList == [kind |-> "emptylist", text |-> <<>>]
JsonString == [kind |-> "string", text |-> <<>>]
ObjectText(text) == [kind |-> "object", text |-> text]
Doc(m) == ObjectText(Dumps(m))

\* dict(value) of a JSON value that is not an object: None, a number and a
\* list of scalars are not iterables of pairs (TypeError), a string of
\* length 2 or more is an iterable of strings of length 1 (ValueError),
\* the empty list is an empty iterable of pairs.
DictError(kind) ==
    CASE kind \in {"null", "number", "scalars"} -> "TypeError"
      [] kind = "string" -> "ValueError"
      [] OTHER -> ""

\* Faulty variant: a missing file is taken for an empty cache and is not
\* created.
M_LoadMetadataCache(file) ==
    CASE file.kind = "absent" ->
           [err |-> "", cause |-> "", map |-> EmptyMap, file |-> file]
      [] file.kind = "notjson" ->
           [err |-> "AutoPkgRunnerException", cause |-> "JSONDecodeError",
            map |-> EmptyMap, file |-> file]
      [] DictError(file.kind) # "" ->
           [err |-> DictError(file.kind), cause |-> "", map |-> EmptyMap, file |-> file]
      [] file.kind = "emptylist" ->
           [err |-> "", cause |-> "", map |-> EmptyMap, file |-> file]
      [] OTHER ->
           [err |-> "", cause |-> "", map |-> Loads(file.text), file |-> file]

\* load_metadata_cache: what it returns or raises, and the file it leaves.
LoadMetadataCache(file) ==
    CASE file.kind = "absent" ->
           [err |-> "", cause |-> "", map |-> EmptyMap, file |-> Doc(EmptyMap)]
      [] file.kind = "notjson" ->
           [err |-> "AutoPkgRunnerException", cause |-> "JSONDecodeError",
            map |-> EmptyMap, file |-> file]
      [] DictError(file.kind) # "" ->
           [err |-> DictError(file.kind), cause |-> "", map |-> EmptyMap, file |-> file]
      [] file.kind = "emptylist" ->
           [err |-> "", cause |-> "", map |-> EmptyMap, file |-> file]
      [] OTHER ->
           [err |-> "", cause |-> "", map |-> Loads(file.text), file |-> file]

\* Faulty variant: a save that starts a new document when the load fails.
M_SaveMetadataCacheAnew(file, name, entry) ==
    LET ld == LoadMetadataCache(file)
    IN  [err |-> "", cause |-> "",
         file |-> Doc(Put(IF ld.err # "" THEN EmptyMap ELSE ld.map, name, entry))]

\* Faulty variant: a save that loads and does not write the document back.
M_SaveMetadataCache(file, name, entry) ==
    LET ld == LoadMetadataCache(file)
    IN  [err |-> ld.err, cause |-> ld.cause, file |-> ld.file]

\* Faulty variant: the write does not start from the loaded document.
M_WriteBackAlone(stored, name, entry) == Doc(Put(EmptyMap, name, entry))

\* Faulty variant: the write merges the entry into the document that is in
\* the file at the time of the write.
M_WriteBack(stored, name, entry) ==
    Doc(Put(LoadMetadataCache(cacheFile).map, name, entry))

\* Lines 209-212: the copy of the loaded document with the recipe's entry
\* set is written over the whole file.
WriteBack(stored, name, entry) == Doc(Put(stored, name, entry))

\* save_metadata_cache: load, replace the recipe's entry, rewrite.
SaveMetadataCache(file, name, entry) ==
    LET ld == LoadMetadataCache(file)
    IN  IF ld.err # ""
        THEN [err |-> ld.err, cause |-> ld.cause, file |-> ld.file]
        ELSE [err |-> "", cause |-> "", file |-> WriteBack(ld.map, name, entry)]

(***************************************************************************)
(* recipe.py: Recipe.run                                                   *)
(***************************************************************************)
NoResult == [kind |-> "none", report |-> NoReport, exc |-> "", cause |-> "", msg |-> ""]
Returned(rep) == [kind |-> "report", report |-> rep, exc |-> "", cause |-> "", msg |-> ""]
Raised(exc, cause, msg) == [kind |-> "exc", report |-> NoReport, exc |-> exc,
                            cause |-> cause, msg |-> msg]

\* Faulty variant: run_cmd(self._autopkg_run_cmd(check)), check left at its
\* default of True.
M_PhaseArgs(dry) ==
    [form |-> "list", argv |-> IF dry THEN "run --check" ELSE "run",
     check |-> TRUE, capture |-> TRUE, timeout |-> FALSE]

\* Faulty variant: run_full runs the command of the check phase again.
M_PhaseArgsCheckAgain(dry) ==
    [form |-> "list", argv |-> "run --check",
     check |-> FALSE, capture |-> TRUE, timeout |-> FALSE]

\* run_cmd(self._autopkg_run_cmd(check), check=False): an argument list
\* that ends in --check for the check phase, output captured, no timeout.
PhaseArgs(dry) ==
    [form |-> "list", argv |-> IF dry THEN "run --check" ELSE "run",
     check |-> FALSE, capture |-> TRUE, timeout |-> FALSE]

\* _extract_download_paths: item["download_path"] of every item.
ExtractDownloadPaths(items) ==
    IF "nopath" \in Range(items)
    THEN [err |-> "KeyError", paths |-> <<>>]
    ELSE [err |-> "", paths |-> items]

\* The record _get_metadata builds for one path: getxattr raises on a
\* missing file (FileNotFoundError) and on a missing attribute (OSError).
FileError(f) ==
    IF ~f.exists THEN "FileNotFoundError"
    ELSE IF f.etag = NoAttr \/ f.lm = NoAttr THEN "OSError"
    ELSE ""

RECURSIVE MetadataList(_, _)
MetadataList(paths, files) ==
    IF paths = <<>> THEN [err |-> "", list |-> <<>>]
    ELSE LET p == Head(paths)
             f == files[p]
         IN  IF FileError(f) # "" THEN [err |-> FileError(f), list |-> <<>>]
             ELSE LET rest == MetadataList(Tail(paths), files)
                  IN  IF rest.err # "" THEN rest
                      ELSE [err |-> "",
                            list |-> <<[etag |-> f.etag, file_size |-> f.size,
                                        last_modified |-> f.lm, file_path |-> p]>>
                                     \o rest.list]

\* _get_metadata: the RecipeCache of the downloaded items, or the error.
GetMetadata(items, files, now) ==
    LET ex == ExtractDownloadPaths(items)
        md == MetadataList(ex.paths, files)
    IN  IF ex.err # "" THEN [err |-> ex.err, entry |-> [timestamp |-> now, metadata |-> <<>>]]
        ELSE [err |-> md.err, entry |-> [timestamp |-> now, metadata |-> md.list]]

\* compile_report: the consolidated report of the report file.
CompileReport(r) == reportFile[r]

\* Faulty variant: every check-phase report is taken to have downloads.
M_HasDownloads(rep) == TRUE

\* if output["downloaded_items"]:
HasDownloads(rep) == rep.items # <<>>

\* Faulty variant: run() hands back the check-phase report after the full run.
M_RunFullReturn(checkReport, fullReport) == checkReport

\* return await self.run_full()
RunFullReturn(checkReport, fullReport) == fullReport

\* run(), resumed when run_cmd of the check phase ends with res: the rest of
\* run_check_phase (a non-zero return code is logged as an error, then the
\* report is compiled), then lines 376-381 up to the first await of
\* run_full.  The log takes down the calls in their order.
AfterCheck(r, res) ==
    LET stop == [pc |-> "raised", output |-> output[r], result |-> NoResult,
                 cache |-> cacheFile, clock |-> clock, log |-> log[r],
                 frame |-> IdleCmd]
        rep == CompileReport(r)
        md == GetMetadata(rep.items, fs, clock)
        sv == SaveMetadataCache(cacheFile, r, md.entry)
        ended == log[r] \o (IF res.rc # 0 THEN <<"check_error">> ELSE <<>>)
                        \o <<"check_end">>
    IN  IF res.kind = "exc"
        THEN [stop EXCEPT !.result = Raised(res.exc, res.cause, res.msg)]
        ELSE IF ~HasDownloads(rep)
        THEN [stop EXCEPT !.pc = "done", !.output = rep, !.result = Returned(rep),
                          !.log = ended]
        ELSE IF md.err # ""
        THEN [stop EXCEPT !.output = rep, !.result = Raised(md.err, "", "_get_metadata"),
                          !.log = ended]
        ELSE IF sv.err # ""
        THEN [stop EXCEPT !.output = rep, !.cache = sv.file, !.clock = clock + 1,
                          !.result = Raised(sv.err, sv.cause, "save_metadata_cache"),
                          !.log = ended \o <<"save_called">>]
        ELSE [stop EXCEPT !.pc = "full", !.output = rep, !.cache = sv.file,
                          !.clock = clock + 1,
                          !.log = ended \o <<"save_called", "save_returned", "run_full">>,
                          !.frame = Spawning(PhaseArgs(FALSE))]

\* run(), resumed when run_cmd of the full run ends with res.
AfterFull(r, res) ==
    IF res.kind = "exc"
    THEN [pc |-> "raised", result |-> Raised(res.exc, res.cause, res.msg), log |-> log[r]]
    ELSE [pc |-> "done", result |-> Returned(RunFullReturn(output[r], CompileReport(r))),
          log |-> log[r] \o (IF res.rc # 0 THEN <<"full_error">> ELSE <<>>)
                         \o <<"full_end">>]

\* A process that has exited leaves nothing behind once run_cmd is over.
Forget(p) == IF p.st = "exited" THEN NoProc ELSE p

Active(r) == runpc[r] \in {"check", "full"}

\* The override directories, in the order of overrides_paths.
Dirs == <<"d1", "d2">>

\* The directories that hold a file of the name, in list order.
Found(name) == SelectSeq(Dirs, LAMBDA d : name \in overrides[d])

\* Faulty variant: the inner loop has no break.
M_BuiltFrom(name) == [i \in DOMAIN Found(name) |-> <<name, Found(name)[i]>>]

\* Lines 140-145 for one name: a Recipe of the first path that exists.
BuiltFrom(name) ==
    IF Found(name) = <<>> THEN <<>> ELSE << <<name, Head(Found(name))>> >>

RECURSIVE BuildAll(_)
BuildAll(names) ==
    IF names = <<>> THEN <<>> ELSE BuildAll(SubSeq(names, 1, Len(names) - 1))
                                   \o BuiltFrom(names[Len(names)])

\* The orders in which a set of names can be iterated.
Orders(S) == {o \in [1..Cardinality(S) -> S] : \A i, j \in DOMAIN o : i # j => o[i] # o[j]}

\* process_recipe_list, lines 138-145: the Recipe objects of the names of
\* recipe_list (a set, iterated in some order) that an override directory
\* holds.
CollectRecipes ==
    /\ alive /\ batch = "collecting"
    /\ \E order \in Orders(Recipes) :
         /\ built' = BuildAll(order)
         /\ todo' = [i \in DOMAIN built' |-> built'[i][1]]
    /\ batch' = "looping"
    /\ UNCHANGED <<overrides, supplied, wrote>>
    /\ UNCHANGED <<runpc, output, result, reportFile, cacheFile, fs, clock, log>>
    /\ UNCHANGED <<alive, cmdVars, directVars, trustVars, storeVars>>

\* process_recipe_list, lines 148-149: await recipe.run() of the next
\* recipe, which runs to the first await of run_check_phase's run_cmd.
StartRun(r) ==
    /\ alive /\ batch = "looping" /\ todo # <<>> /\ r = Head(todo)
    /\ \A q \in Recipes : runpc[q] \in {"idle", "done"}
    /\ runpc[r] = "idle"
    /\ todo' = Tail(todo)
    /\ runpc' = [runpc EXCEPT ![r] = "check"]
    /\ cmd' = [cmd EXCEPT ![r] = Spawning(PhaseArgs(TRUE))]
    /\ log' = [log EXCEPT ![r] = Append(@, "run_check_phase")]
    /\ UNCHANGED <<batch, output, result, reportFile, cacheFile, fs, clock, proc>>
    /\ UNCHANGED <<alive, storeVars, batchVars, directVars, trustVars>>

\* create_subprocess_exec of a recipe's run_cmd returns the process.
ToolSpawned(r) ==
    /\ alive /\ Active(r)
    /\ Spawned(r)
    /\ log' = [log EXCEPT ![r] = Append(@, IF cmd[r].args.argv = "run --check"
                                           THEN "spawn_check" ELSE "spawn_full")]
    /\ UNCHANGED <<todo, batch, runpc, output, result, reportFile, cacheFile, fs, clock>>
    /\ UNCHANGED <<alive, storeVars, batchVars, directVars, trustVars>>

\* The tool ends: it has written its report and, when touch, the files of
\* the report's downloaded items (the full run writes them again).
ToolExits(r, code, items, touch) ==
    LET dry == proc[r].argv = "run --check"
    IN  /\ Exits(r, code, <<"out", "err">>, TRUE)
        /\ reportFile' = [reportFile EXCEPT ![r] =
                            [phase |-> IF dry THEN "check" ELSE "full", items |-> items]]
        /\ fs' = IF touch
                 THEN [p \in Paths |-> IF p \in Range(items)
                                       THEN (IF dry THEN Fetched ELSE Rewritten)
                                       ELSE fs[p]]
                 ELSE fs
        /\ UNCHANGED <<cmd, todo, batch, runpc, output, result, cacheFile, clock, log>>
        /\ UNCHANGED <<alive, storeVars, batchVars, directVars, trustVars>>

\* run_cmd of the check phase ends and run() goes on.
CheckPhaseResume(r) ==
    /\ alive /\ runpc[r] = "check"
    /\ \E f \in Finishings(r) :
         LET n == AfterCheck(r, f.res)
         IN  /\ runpc' = [runpc EXCEPT ![r] = n.pc]
             /\ output' = [output EXCEPT ![r] = n.output]
             /\ result' = [result EXCEPT ![r] = n.result]
             /\ cacheFile' = n.cache
             /\ clock' = n.clock
             /\ log' = [log EXCEPT ![r] = n.log]
             /\ cmd' = [cmd EXCEPT ![r] = n.frame]
             /\ proc' = [proc EXCEPT ![r] = Forget(f.proc)]
    /\ UNCHANGED <<todo, batch, reportFile, fs>>
    /\ UNCHANGED <<alive, storeVars, batchVars, directVars, trustVars>>

\* run_cmd of the full run ends and run() returns or raises.
FullRunResume(r) ==
    /\ alive /\ runpc[r] = "full"
    /\ \E f \in Finishings(r) :
         LET n == AfterFull(r, f.res)
         IN  /\ runpc' = [runpc EXCEPT ![r] = n.pc]
             /\ result' = [result EXCEPT ![r] = n.result]
             /\ log' = [log EXCEPT ![r] = n.log]
             /\ proc' = [proc EXCEPT ![r] = Forget(f.proc)]
    /\ cmd' = [cmd EXCEPT ![r] = IdleCmd]
    /\ UNCHANGED <<todo, batch, output, reportFile, cacheFile, fs, clock>>
    /\ UNCHANGED <<alive, storeVars, batchVars, directVars, trustVars>>

\* process_recipe_list ends: the list is exhausted, or a run() raised and
\* nothing in the loop catches it.
BatchEnds ==
    /\ alive /\ batch = "looping"
    /\ \A q \in Recipes : ~Active(q)
    /\ \/ /\ \E q \in Recipes : runpc[q] = "raised"
          /\ batch' = "raised"
       \/ /\ \A q \in Recipes : runpc[q] # "raised"
          /\ todo = <<>>
          /\ batch' = "returned"
    /\ UNCHANGED <<todo, runpc, output, result, reportFile, cacheFile, fs, clock, log>>
    /\ UNCHANGED <<alive, storeVars, batchVars, cmdVars, directVars, trustVars>>

\* The run() coroutines of the recipes of todo as tasks of one event loop
\* (asyncio.gather of the run() calls): the run() of any recipe that has not
\* started runs to the first await of run_check_phase's run_cmd.
GatherStart(r) ==
    /\ alive /\ batch = "gather" /\ r \in Range(todo)
    /\ runpc[r] = "idle"
    /\ runpc' = [runpc EXCEPT ![r] = "check"]
    /\ cmd' = [cmd EXCEPT ![r] = Spawning(PhaseArgs(TRUE))]
    /\ log' = [log EXCEPT ![r] = Append(@, "run_check_phase")]
    /\ UNCHANGED <<todo, batch, output, result, reportFile, cacheFile, fs, clock, proc>>
    /\ UNCHANGED <<alive, storeVars, batchVars, directVars, trustVars>>

\* Every task has ended.
GatherEnds ==
    /\ alive /\ batch = "gather"
    /\ \A q \in Range(todo) : runpc[q] \in {"done", "raised"}
    /\ batch' = IF \E q \in Range(todo) : runpc[q] = "raised" THEN "raised" ELSE "returned"
    /\ UNCHANGED <<todo, runpc, output, result, reportFile, cacheFile, fs, clock, log>>
    /\ UNCHANGED <<alive, storeVars, batchVars, cmdVars, directVars, trustVars>>

(***************************************************************************)
(* recipe.py: the trust-info state of one Recipe                           *)
(***************************************************************************)
\* class TrustInfoVerificationState(Enum): UNTESTED = auto() is 1,
\* FAILED = False, TRUSTED = True; in Python False == 0 and True == 1.
StateNames == <<"UNTESTED", "FAILED", "TRUSTED">>
EnumValue(name) ==
    CASE name = "UNTESTED" -> 1
      [] name = "FAILED" -> 0
      [] name = "TRUSTED" -> 1

\* The member a name of the class is bound to: Enum makes a name whose
\* value equals that of an earlier member an alias of that member.
Member(name) ==
    LET i == CHOOSE k \in DOMAIN StateNames :
                 /\ EnumValue(StateNames[k]) = EnumValue(name)
                 /\ \A j \in 1..(k - 1) : EnumValue(StateNames[j]) # EnumValue(name)
    IN  StateNames[i]

\* self._trusted == TrustInfoVerificationState.UNTESTED
IsUntested(state) == Member(state) = Member("UNTESTED")

\* self._trusted.value
StateValue(state) == EnumValue(Member(state))

NoCall == [op |-> "none", kind |-> "none", val |-> 0, exc |-> "", cause |-> ""]
CallReturned(op, v) == [op |-> op, kind |-> "ret", val |-> v, exc |-> "", cause |-> ""]
CallRaised(op, res) == [op |-> op, kind |-> "exc", val |-> 0, exc |-> res.exc, cause |-> res.cause]

\* verify-trust-info <name> --override-dir=..., check=False
VerifyArgs == [form |-> "list", argv |-> "verify-trust-info", check |-> FALSE,
               capture |-> TRUE, timeout |-> FALSE]
\* update-trust-info <name> --override-dir=..., with run_cmd's defaults
UpdateArgs == [form |-> "list", argv |-> "update-trust-info", check |-> TRUE,
               capture |-> TRUE, timeout |-> FALSE]

\* Faulty variant: the test of the return code inverted.
M_Verdict(rc) == IF rc # 0 THEN "TRUSTED" ELSE "FAILED"

\* Lines 485-490: the state a verification's return code sets.
Verdict(rc) == IF rc = 0 THEN "TRUSTED" ELSE "FAILED"

\* Invocations of verify-trust-info that are counted one by one; the count
\* stays at this number once it is reached.
MaxVerify == 2

\* verify_trust_info() is called: it returns the cached state, or awaits
\* the tool.
VerifyCall(t) ==
    /\ alive /\ tpc[t] = "idle"
    /\ IF IsUntested(trusted)
       THEN /\ tpc' = [tpc EXCEPT ![t] = "verify"]
            /\ cmd' = [cmd EXCEPT ![t] = Spawning(VerifyArgs)]
            /\ tret' = [tret EXCEPT ![t] = NoCall]
       ELSE /\ tret' = [tret EXCEPT ![t] = CallReturned("verify", StateValue(trusted))]
            /\ UNCHANGED <<tpc, cmd>>
    /\ fresh' = FALSE
    /\ UNCHANGED <<trusted, proc, nverify>>
    /\ UNCHANGED <<alive, storeVars, batchVars, directVars, runVars>>

\* run_cmd of verify_trust_info ends: the state is set and returned.
VerifyResume(t) ==
    /\ alive /\ tpc[t] = "verify"
    /\ \E f \in Finishings(t) :
         /\ IF f.res.kind = "exc"
            THEN /\ tret' = [tret EXCEPT ![t] = CallRaised("verify", f.res)]
                 /\ UNCHANGED trusted
            ELSE /\ trusted' = Verdict(f.res.rc)
                 /\ tret' = [tret EXCEPT ![t] = CallReturned("verify", StateValue(trusted'))]
         /\ proc' = [proc EXCEPT ![t] = Forget(f.proc)]
    /\ tpc' = [tpc EXCEPT ![t] = "idle"]
    /\ cmd' = [cmd EXCEPT ![t] = IdleCmd]
    /\ UNCHANGED <<fresh, nverify>>
    /\ UNCHANGED <<alive, storeVars, batchVars, directVars, runVars>>

\* update_trust_info() is called: it awaits the tool.
UpdateCall(t) ==
    /\ alive /\ tpc[t] = "idle"
    /\ tpc' = [tpc EXCEPT ![t] = "update"]
    /\ cmd' = [cmd EXCEPT ![t] = Spawning(UpdateArgs)]
    /\ tret' = [tret EXCEPT ![t] = NoCall]
    /\ UNCHANGED <<trusted, proc, fresh, nverify>>
    /\ UNCHANGED <<alive, storeVars, batchVars, directVars, runVars>>

\* run_cmd of update_trust_info ends: lines 452-460.
UpdateResume(t) ==
    /\ alive /\ tpc[t] = "update"
    /\ \E f \in Finishings(t) :
         /\ IF f.res.kind = "exc"
            THEN /\ tret' = [tret EXCEPT ![t] = CallRaised("update", f.res)]
                 /\ UNCHANGED <<trusted, fresh, nverify>>
            ELSE /\ trusted' = "UNTESTED"
                 /\ fresh' = TRUE
                 /\ nverify' = 0
                 /\ tret' = [tret EXCEPT ![t] = CallReturned("update", IF f.res.rc = 0 THEN 1 ELSE 0)]
         /\ proc' = [proc EXCEPT ![t] = Forget(f.proc)]
    /\ tpc' = [tpc EXCEPT ![t] = "idle"]
    /\ cmd' = [cmd EXCEPT ![t] = IdleCmd]
    /\ UNCHANGED <<alive, storeVars, batchVars, directVars, runVars>>

(***************************************************************************)
(* The environment of run_cmd                                              *)
(***************************************************************************)
\* create_subprocess_exec of a direct or a trust-info call returns.
ProcessSpawned(c) ==
    /\ alive /\ c \in Direct \cup Callers
    /\ Spawned(c)
    /\ nverify' = IF cmd[c].args.argv = "verify-trust-info" /\ nverify < MaxVerify
                  THEN nverify + 1 ELSE nverify
    /\ UNCHANGED <<trusted, tpc, tret, fresh>>
    /\ UNCHANGED <<alive, storeVars, batchVars, directVars, runVars>>

\* The process of a direct or a trust-info call ends by itself.
ProcessExits(c) ==
    /\ c \in Direct \cup Callers
    /\ \E code \in ExitCodes, o \in Outputs, eof \in BOOLEAN : Exits(c, code, o, eof)
    /\ UNCHANGED <<alive, storeVars, batchVars, cmd, directVars, runVars, trustVars>>

\* The event loop notices an exit only while it runs.
Reaped(c) == alive /\ Reap(c)

(***************************************************************************)
(* __main__.py: signal_handler                                             *)
(***************************************************************************)
\* SIGINT or SIGTERM: signal_handler calls sys.exit(0); asyncio.run then
\* cancels every task of the loop and ends.  Nothing on this path signals
\* a subprocess.
SignalExit ==
    /\ alive
    /\ alive' = FALSE
    /\ cmd' = Unwound(Slots)
    /\ hres' = [c \in Direct |-> IF Cancellable(c) THEN Raise("CancelledError", "", "") ELSE hres[c]]
    /\ hist' = [c \in Direct |-> IF Cancellable(c)
                                 THEN [ev |-> "cancel", raw |-> "CancelledError", args |-> cmd[c].args]
                                 ELSE hist[c]]
    /\ runpc' = [r \in Recipes |-> IF Active(r) THEN "cancelled" ELSE runpc[r]]
    /\ batch' = IF batch = "looping" THEN "cancelled" ELSE batch
    /\ tpc' = [t \in Callers |-> "idle"]
    /\ tret' = [t \in Callers |-> IF tpc[t] # "idle"
                                  THEN CallRaised(tpc[t], Raise("CancelledError", "", ""))
                                  ELSE tret[t]]
    /\ UNCHANGED <<proc, todo, output, result, reportFile, cacheFile, fs, clock, log, trusted>>
    /\ UNCHANGED <<fresh, nverify>>
    /\ UNCHANGED <<storeVars, batchVars>>

(***************************************************************************)
(* metadata_cache.py: calls of load_metadata_cache and save_metadata_cache *)
(* by one process                                                          *)
(***************************************************************************)
\* Calls of save_metadata_cache in one behaviour.
MaxSaves == 3

NoEntry == [timestamp |-> 0, metadata |-> <<>>]
NoLoad == [kind |-> "none", err |-> "", cause |-> "", map |-> EmptyMap,
           before |-> NoFile, after |-> NoFile]
NoSave == [kind |-> "none", name |-> "", entry |-> NoEntry, err |-> "",
           cause |-> "", before |-> NoFile]

\* RecipeCache values a caller saves: no record, records that lack fields,
\* records in an order that is not the order of their paths.
SaveEntries ==
    { [timestamp |-> 1, metadata |-> <<>>],
      [timestamp |-> 2, metadata |-> <<[file_path |-> "p1", file_size |-> 0]>>],
      [timestamp |-> 3,
       metadata |-> <<[etag |-> "e2", file_size |-> 5, last_modified |-> "m2",
                       file_path |-> "p2"],
                      [etag |-> "e1", file_path |-> "p1"]>>] }

\* metadata_cache = load_metadata_cache(file_path)
LoadCall ==
    LET ld == LoadMetadataCache(cacheFile)
    IN  /\ alive
        /\ cacheFile' = ld.file
        /\ lastLoad' = [kind |-> IF ld.err = "" THEN "ret" ELSE "exc",
                        err |-> ld.err, cause |-> ld.cause, map |-> ld.map,
                        before |-> cacheFile, after |-> ld.file]
        /\ UNCHANGED <<expect, lastSave, nsaves, writerVars, dummyVars>>
        /\ UNCHANGED <<alive, cmdVars, directVars, trustVars, batchVars>>
        /\ UNCHANGED <<todo, batch, runpc, output, result, reportFile, fs, clock, log>>

\* save_metadata_cache(file_path, recipe_name, metadata)
SaveCall(name, entry) ==
    LET sv == SaveMetadataCache(cacheFile, name, entry)
    IN  /\ alive /\ nsaves < MaxSaves
        /\ cacheFile' = sv.file
        /\ lastSave' = [kind |-> IF sv.err = "" THEN "ret" ELSE "exc",
                        name |-> name, entry |-> entry, err |-> sv.err,
                        cause |-> sv.cause, before |-> cacheFile]
        /\ expect' = IF sv.err # "" THEN expect
                     ELSE [n \in DOMAIN expect \cup {name} |->
                              IF n = name THEN entry ELSE expect[n]]
        /\ nsaves' = nsaves + 1
        /\ UNCHANGED <<lastLoad, writerVars, dummyVars>>
        /\ UNCHANGED <<alive, cmdVars, directVars, trustVars, batchVars>>
        /\ UNCHANGED <<todo, batch, runpc, output, result, reportFile, fs, clock, log>>

(***************************************************************************)
(* metadata_cache.py: save_metadata_cache in two processes at once         *)
(***************************************************************************)
\* Two processes, each saving the entry of its own recipe into one file.
Writers == {"w1", "w2"}
WName(w) == IF w = "w1" THEN "A.recipe" ELSE "B.recipe"

NoFrame == [stored |-> EmptyMap, metadata |-> NoEntry]

\* Line 207 in process w: stored_metadata = load_metadata_cache(file_path).
WriterLoads(w) ==
    LET ld == LoadMetadataCache(cacheFile)
    IN  /\ wpc[w] = "idle"
        /\ \E entry \in SaveEntries :
             wstored' = [wstored EXCEPT ![w] = [stored |-> ld.map, metadata |-> entry]]
        /\ cacheFile' = ld.file
        /\ wpc' = [wpc EXCEPT ![w] = IF ld.err = "" THEN "loaded" ELSE "raised"]
        /\ wlog' = Append(wlog, <<w, "load">>)
        /\ UNCHANGED <<cacheVars, dummyVars>>
        /\ UNCHANGED <<alive, cmdVars, directVars, trustVars, batchVars>>
        /\ UNCHANGED <<todo, batch, runpc, output, result, reportFile, fs, clock, log>>

\* Lines 209-212 in process w: the document it loaded, with its entry set,
\* replaces the file.
WriterWrites(w) ==
    /\ wpc[w] = "loaded"
    /\ cacheFile' = WriteBack(wstored[w].stored, WName(w), wstored[w].metadata)
    /\ wpc' = [wpc EXCEPT ![w] = "done"]
    /\ wlog' = Append(wlog, <<w, "write">>)
    /\ UNCHANGED <<wstored, cacheVars, dummyVars>>
    /\ UNCHANGED <<alive, cmdVars, directVars, trustVars, batchVars>>
    /\ UNCHANGED <<todo, batch, runpc, output, result, reportFile, fs, clock, log>>

(***************************************************************************)
(* metadata_cache.py: create_dummy_files                                   *)
(***************************************************************************)
\* Longest metadata list of a recipe in the cache, and the calls of
\* create_dummy_files in one behaviour.
MaxRecs == 2
MaxCalls == 2

\* A DownloadMetadata record (total=False): any of its keys may be missing
\* (None for a string, the empty sequence in place of <<file_size>>).
None == "<none>"
Rec(path, size, etag, lm) ==
    [k \in (IF path = None THEN {} ELSE {"file_path"})
           \cup (IF size = <<>> THEN {} ELSE {"file_size"})
           \cup (IF etag = None THEN {} ELSE {"etag"})
           \cup (IF lm = None THEN {} ELSE {"last_modified"}) |->
        CASE k = "file_path" -> path
          [] k = "file_size" -> size[1]
          [] k = "etag" -> etag
          [] k = "last_modified" -> lm]

\* metadata_cache.get(key) is truthy: the key is there and its value is
\* not the empty string, not 0.
GetStr(d, k) == k \in DOMAIN d /\ d[k] # ""
GetSize(d) == "file_size" \in DOMAIN d /\ d["file_size"] # 0

\* _set_file_size: seek to size - 1 and write one byte.
SetFileSize(size) == (size - 1) + 1

\* Faulty variant: no test of file_path.exists().
M_ReplayOverwrite(files, d) ==
    IF ~GetStr(d, "file_path") THEN files
    ELSE IF ~GetSize(d) THEN files
    ELSE [files EXCEPT ![d["file_path"]] =
             [exists |-> TRUE, size |-> SetFileSize(d["file_size"]),
              etag |-> IF GetStr(d, "etag") THEN d["etag"] ELSE NoAttr,
              lm |-> IF GetStr(d, "last_modified") THEN d["last_modified"] ELSE NoAttr]]

\* Faulty variant: a file that exists is removed.
M_ReplayUnlink(files, d) ==
    IF ~GetStr(d, "file_path") THEN files
    ELSE IF ~GetSize(d) THEN files
    ELSE IF files[d["file_path"]].exists
    THEN [files EXCEPT ![d["file_path"]] = Absent]
    ELSE [files EXCEPT ![d["file_path"]] =
             [exists |-> TRUE, size |-> SetFileSize(d["file_size"]),
              etag |-> IF GetStr(d, "etag") THEN d["etag"] ELSE NoAttr,
              lm |-> IF GetStr(d, "last_modified") THEN d["last_modified"] ELSE NoAttr]]

\* Lines 102-141: one record of a recipe's metadata list.
Replay(files, d) ==
    IF ~GetStr(d, "file_path") THEN files
    ELSE IF ~GetSize(d) THEN files
    ELSE IF files[d["file_path"]].exists THEN files
    ELSE [files EXCEPT ![d["file_path"]] =
             [exists |-> TRUE, size |-> SetFileSize(d["file_size"]),
              etag |-> IF GetStr(d, "etag") THEN d["etag"] ELSE NoAttr,
              lm |-> IF GetStr(d, "last_modified") THEN d["last_modified"] ELSE NoAttr]]

\* Faulty variant: the loops end at the first record that is skipped for a
\* missing file_path or file_size.
RECURSIVE M_ReplayAll(_, _)
M_ReplayAll(recs, files) ==
    IF recs = <<>> THEN files
    ELSE IF ~GetStr(Head(recs), "file_path") \/ ~GetSize(Head(recs)) THEN files
    ELSE M_ReplayAll(Tail(recs), Replay(files, Head(recs)))

\* The loops of lines 96-141 over the records, in their order.
RECURSIVE ReplayAll(_, _)
ReplayAll(recs, files) ==
    IF recs = <<>> THEN files
    ELSE ReplayAll(Tail(recs), Replay(files, Head(recs)))

\* The records the loops visit: cache.items() in the order of the document
\* (save_metadata_cache writes it with sorted keys), the recipes that are
\* not in recipe_list left out.
\* Faulty variant: no test of recipe_name against recipe_list.
RECURSIVE M_Visited(_, _, _)
M_Visited(names, list, cache) ==
    IF names = <<>> THEN <<>>
    ELSE (IF Head(names) \in DOMAIN cache
          THEN cache[Head(names)].metadata ELSE <<>>)
         \o M_Visited(Tail(names), list, cache)

RECURSIVE Visited(_, _, _)
Visited(names, list, cache) ==
    IF names = <<>> THEN <<>>
    ELSE (IF Head(names) \in DOMAIN cache /\ Head(names) \in list
          THEN cache[Head(names)].metadata ELSE <<>>)
         \o Visited(Tail(names), list, cache)

CreateDummyFiles(list, cache, files) ==
    ReplayAll(Visited(RecipeOrder, list, cache), files)

\* create_dummy_files(recipe_list, metadata_cache)
DummyCall ==
    /\ alive /\ Len(dhist) <= MaxCalls
    /\ fs' = CreateDummyFiles(dlist, dcache, fs)
    /\ dhist' = Append(dhist, fs')
    /\ UNCHANGED <<dcache, dlist, cacheVars, writerVars>>
    /\ UNCHANGED <<alive, cmdVars, directVars, trustVars, batchVars>>
    /\ UNCHANGED <<todo, batch, runpc, output, result, reportFile, cacheFile, clock, log>>

(***************************************************************************)
(* recipe.py, __main__.py: the name of a Recipe, and a later invocation    *)
(***************************************************************************)
\* A path is the sequence of its components, each a stem and a suffix.
Comp(stem, suffix) == [stem |-> stem, suffix |-> suffix]
CompText(c) == c.stem \o c.suffix
RECURSIVE PathText(_)
PathText(path) ==
    IF Len(path) = 1 THEN CompText(path[1])
    ELSE CompText(path[1]) \o "/" \o PathText(Tail(path))

\* Path(overrides_path).expanduser() / recipe_name
JoinPath(dir, name) == <<Comp(dir, "")>> \o name

\* Faulty variant: the name of the docstring, "without the extension"
\* (Path.stem).
M_PathStem(path) == path[Len(path)].stem

\* Recipe.name: self._path.name, the last component of the path.
PathName(path) == CompText(path[Len(path)])

\* The entry run() stores for a download at path p.
NewEntry(p, now) ==
    [timestamp |-> now,
     metadata |-> <<[etag |-> Fetched.etag, file_size |-> Fetched.size,
                     last_modified |-> Fetched.lm, file_path |-> p]>>]

\* run() of the Recipe that process_recipe_list has made for the supplied
\* name n, whose check phase reports the download of p: lines 376-378 store
\* the entry under self.name.  (The subprocesses of run() are left to the
\* actions above.)
RunStores(n, p) ==
    /\ alive /\ batch = "looping" /\ dhist = <<>>
    /\ n \in supplied /\ n \notin DOMAIN wrote
    /\ LET key == PathName(JoinPath(Dirs[1], n))
           entry == NewEntry(p, clock)
           sv == SaveMetadataCache(cacheFile, key, entry)
       IN  /\ sv.err = ""
           /\ cacheFile' = sv.file
           /\ wrote' = [m \in DOMAIN wrote \cup {n} |->
                           IF m = n THEN [key |-> key, entry |-> entry] ELSE wrote[m]]
    /\ clock' = clock + 1
    /\ UNCHANGED <<overrides, built, supplied>>
    /\ UNCHANGED <<todo, batch, runpc, output, result, reportFile, fs, log>>
    /\ UNCHANGED <<alive, cmdVars, directVars, trustVars, storeVars>>

\* async_main of a later invocation, lines 189-192, with the same recipe
\* list: the cache is loaded and create_dummy_files is called.
LaterInvocation ==
    /\ alive /\ batch = "looping" /\ dhist = <<>>
    /\ LET ld == LoadMetadataCache(cacheFile)
       IN  /\ ld.err = ""
           /\ cacheFile' = ld.file
           /\ dcache' = ld.map
    /\ dlist' = {PathText(n) : n \in supplied}
    /\ fs' = CreateDummyFiles(dlist', dcache', fs)
    /\ dhist' = <<fs, fs'>>
    /\ batch' = "later"
    /\ UNCHANGED <<cacheVars, writerVars, batchVars>>
    /\ UNCHANGED <<todo, runpc, output, result, reportFile, clock, log>>
    /\ UNCHANGED <<alive, cmdVars, directVars, trustVars>>

(***************************************************************************)
(* __main__.py: async_main                                                 *)
(***************************************************************************)
\* Faulty variant: process_recipe_list is awaited before the cache is
\* loaded and the dummy files are made.
M_FirstStage == "collecting"

\* async_main begins with lines 182-195, before process_recipe_list.
FirstStage == "startup"

\* async_main, lines 189-195: the cache is loaded, create_dummy_files is
\* called with the recipe list and the loaded cache, and the preferences are
\* read (AutoPkgPrefs raises when its plist is missing or invalid).  Nothing
\* here awaits.
MainStartup ==
    /\ alive /\ batch = "startup"
    /\ LET ld == LoadMetadataCache(cacheFile)
       IN  /\ cacheFile' = ld.file
           /\ IF ld.err # ""
              THEN /\ batch' = "raised"
                   /\ UNCHANGED <<fs, dummyVars>>
              ELSE /\ dcache' = ld.map
                   /\ dlist' = Recipes
                   /\ fs' = CreateDummyFiles(dlist', dcache', fs)
                   /\ dhist' = <<fs, fs'>>
                   /\ \E prefs \in BOOLEAN :
                          batch' = IF prefs THEN "collecting" ELSE "raised"
    /\ UNCHANGED <<cacheVars, writerVars, batchVars>>
    /\ UNCHANGED <<todo, runpc, output, result, reportFile, clock, log>>
    /\ UNCHANGED <<alive, cmdVars, directVars, trustVars>>

(***************************************************************************)
(* Specifications                                                          *)
(***************************************************************************)
InitCmd ==
    /\ cmd = [c \in Slots |-> IdleCmd]
    /\ proc = [c \in Slots |-> NoProc]
InitDirect ==
    /\ hres = [c \in Direct |-> NoRes]
    /\ hist = [c \in Direct |-> NoHist]
InitTrust ==
    /\ trusted = "UNTESTED"
    /\ tpc = [t \in Callers |-> "idle"]
    /\ tret = [t \in Callers |-> NoCall]
    /\ fresh = FALSE
    /\ nverify = 0

\* An entry an earlier invocation saved.
OldEntry == [timestamp |-> 0,
             metadata |-> <<[etag |-> "e0", file_size |-> 1, last_modified |-> "m0",
                             file_path |-> "p1"]>>]
\* The cache file an invocation can find.
CacheFiles == {NoFile, NotJson, JsonNull, Doc(EmptyMap)}
                \cup {Doc([n \in {r} |-> OldEntry]) : r \in Recipes}

InitCacheIdle ==
    /\ expect = EmptyMap
    /\ lastLoad = NoLoad
    /\ lastSave = NoSave
    /\ nsaves = 0
InitWritersIdle ==
    /\ wpc = [w \in Writers |-> "idle"]
    /\ wstored = [w \in Writers |-> NoFrame]
    /\ wlog = <<>>
InitDummyIdle ==
    /\ dcache = EmptyMap
    /\ dlist = {}
    /\ dhist = <<>>

InitBatchIdle ==
    /\ overrides = [d \in {Dirs[i] : i \in DOMAIN Dirs} |-> {}]
    /\ built = <<>>
    /\ supplied = {}
    /\ wrote = <<>>

InitRunIdle ==
    /\ batch = "looping"
    /\ runpc = [r \in Recipes |-> "idle"]
    /\ output = [r \in Recipes |-> NoReport]
    /\ result = [r \in Recipes |-> NoResult]
    /\ reportFile = [r \in Recipes |-> NoReport]
    /\ clock = 1
    /\ log = [r \in Recipes |-> <<>>]

\* The batches of process_recipe_list that hold one recipe.
SingleBatches == {<<r>> : r \in Recipes}

\* Direct calls of run_cmd.
InitCmdOnly ==
    /\ alive = TRUE
    /\ InitCmd /\ InitDirect /\ InitTrust /\ InitRunIdle /\ InitBatchIdle
    /\ InitCacheIdle /\ InitWritersIdle /\ InitDummyIdle
    /\ todo = <<>>
    /\ cacheFile = NoFile
    /\ fs = [p \in Paths |-> Absent]

NextCmd ==
    \/ \E c \in Direct : DirectCall(c)
    \/ \E c \in Direct : ProcessSpawned(c)
    \/ \E c \in Direct : ProcessExits(c)
    \/ \E c \in Direct : Reaped(c)
    \/ \E c \in Direct : PipesClose(c)
    \/ \E c \in Direct : DirectFinish(c)
    \/ \E c \in Direct : DirectCancel(c)
    \/ SignalExit

SpecCmd == InitCmdOnly /\ [][NextCmd]_vars

\* The event loop runs what is ready: the callback of a spawn that has
\* ended, of a wait that is complete, or of a timer that has fired resumes
\* run_cmd.
SpecCmdFair == SpecCmd /\ \A c \in Direct : WF_vars(DirectFinish(c))

\* A batch of one recipe run by process_recipe_list.
InitRun ==
    /\ alive = TRUE
    /\ InitCmd /\ InitDirect /\ InitTrust /\ InitRunIdle /\ InitBatchIdle
    /\ InitCacheIdle /\ InitWritersIdle /\ InitDummyIdle
    /\ todo \in SingleBatches
    /\ cacheFile \in CacheFiles
    /\ fs \in [Paths -> {Absent, Fetched, Bare}]

NextRun ==
    \/ \E r \in Recipes : StartRun(r)
    \/ \E r \in Recipes : ToolSpawned(r)
    \/ \E r \in Recipes, code \in {0, 1}, items \in ItemLists, touch \in BOOLEAN :
           ToolExits(r, code, items, touch)
    \/ \E r \in Recipes : Reaped(r)
    \/ \E r \in Recipes : CheckPhaseResume(r)
    \/ \E r \in Recipes : FullRunResume(r)
    \/ BatchEnds
    \/ SignalExit

SpecRun == InitRun /\ [][NextRun]_vars

\* Calls of verify_trust_info and update_trust_info on one Recipe.
InitTrustOnly ==
    /\ alive = TRUE
    /\ InitCmd /\ InitDirect /\ InitTrust /\ InitRunIdle /\ InitBatchIdle
    /\ InitCacheIdle /\ InitWritersIdle /\ InitDummyIdle
    /\ todo = <<>>
    /\ cacheFile = NoFile
    /\ fs = [p \in Paths |-> Absent]

NextTrust ==
    \/ \E t \in Callers : VerifyCall(t)
    \/ \E t \in Callers : UpdateCall(t)
    \/ \E t \in Callers : ProcessSpawned(t)
    \/ \E t \in Callers : ProcessExits(t)
    \/ \E t \in Callers : Reaped(t)
    \/ \E t \in Callers : PipesClose(t)
    \/ \E t \in Callers : VerifyResume(t)
    \/ \E t \in Callers : UpdateResume(t)
    \/ SignalExit

SpecTrust == InitTrustOnly /\ [][NextTrust]_vars

\* Calls of verify_trust_info and update_trust_info made one after the
\* other: one caller, each call awaited before the next.
Solo == {"t1"}
NextTrustSolo ==
    \/ \E t \in Solo : VerifyCall(t)
    \/ \E t \in Solo : UpdateCall(t)
    \/ \E t \in Solo : ProcessSpawned(t)
    \/ \E t \in Solo : ProcessExits(t)
    \/ \E t \in Solo : Reaped(t)
    \/ \E t \in Solo : PipesClose(t)
    \/ \E t \in Solo : VerifyResume(t)
    \/ \E t \in Solo : UpdateResume(t)
    \/ SignalExit

SpecTrustSolo == InitTrustOnly /\ [][NextTrustSolo]_vars

\* Calls of load_metadata_cache and save_metadata_cache, one after the
\* other, on a file that holds at first any of the documents below.
CacheMaps == {EmptyMap, [n \in {"A.recipe"} |-> OldEntry],
              [n \in {"B.recipe"} |-> OldEntry], [n \in Recipes |-> OldEntry]}
\* A document that was not written with sorted keys.
HandMap == [n \in Recipes |-> IF n = "A.recipe" THEN OldEntry ELSE NoEntry]
HandText == << <<"B.recipe", DumpsEntry(NoEntry)>>, <<"A.recipe", DumpsEntry(OldEntry)>> >>
BadDocs == {NotJson, JsonNull, JsonNumber, JsonScalars, JsonEmptyList, JsonString}

InitCache ==
    /\ alive = TRUE
    /\ InitCmd /\ InitDirect /\ InitTrust /\ InitRunIdle /\ InitBatchIdle
    /\ InitWritersIdle /\ InitDummyIdle
    /\ todo = <<>>
    /\ fs = [p \in Paths |-> Absent]
    /\ lastLoad = NoLoad
    /\ lastSave = NoSave
    /\ nsaves = 0
    /\ \/ \E m \in CacheMaps : cacheFile = Doc(m) /\ expect = m
       \/ cacheFile = ObjectText(HandText) /\ expect = HandMap
       \/ cacheFile \in {NoFile} \cup BadDocs /\ expect = EmptyMap

NextCache ==
    \/ LoadCall
    \/ \E name \in Recipes, entry \in SaveEntries : SaveCall(name, entry)

SpecCache == InitCache /\ [][NextCache]_vars

\* save_metadata_cache in two processes that share the file.
InitWriters ==
    /\ alive = TRUE
    /\ InitCmd /\ InitDirect /\ InitTrust /\ InitRunIdle /\ InitBatchIdle
    /\ InitCacheIdle /\ InitWritersIdle /\ InitDummyIdle
    /\ todo = <<>>
    /\ fs = [p \in Paths |-> Absent]
    /\ cacheFile \in {NoFile, NotJson, Doc(EmptyMap), Doc([n \in {"A.recipe"} |-> OldEntry])}

NextWriters ==
    \/ \E w \in Writers : WriterLoads(w)
    \/ \E w \in Writers : WriterWrites(w)

SpecWriters == InitWriters /\ [][NextWriters]_vars

\* create_dummy_files, called again with the same arguments.
DummyRecs ==
    {Rec(p, z, a[1], a[2]) : p \in {None} \cup Paths, z \in {<<>>, <<0>>, <<2>>},
                             a \in {<<None, None>>, <<"e1", "m1">>}}
    \cup {Rec("p1", <<2>>, "e1", None), Rec("p2", <<2>>, None, "m1")}
RecLists == UNION {[1..k -> DummyRecs] : k \in 0..MaxRecs}
OtherLists == {<<Rec("p2", <<2>>, "e3", None)>>}
DummyCaches ==
    {[n \in {"A.recipe"} |-> [timestamp |-> 0, metadata |-> l]] : l \in RecLists}
    \cup {[n \in Recipes |-> [timestamp |-> 0,
                              metadata |-> IF n = "A.recipe" THEN l ELSE o]] :
             l \in RecLists, o \in OtherLists}

InitDummy ==
    /\ alive = TRUE
    /\ InitCmd /\ InitDirect /\ InitTrust /\ InitRunIdle /\ InitBatchIdle
    /\ InitCacheIdle /\ InitWritersIdle
    /\ todo = <<>>
    /\ cacheFile = NoFile
    /\ dcache \in DummyCaches
    /\ dlist \in SUBSET Recipes
    /\ fs \in [Paths -> {Absent, Bare}]
    /\ dhist = <<fs>>

NextDummy == DummyCall

SpecDummy == InitDummy /\ [][NextDummy]_vars

\* process_recipe_list on a recipe_list of both names: the override
\* directories hold any of the files, the cache file is missing or corrupt,
\* and the tool reports no download or the download of p1.
InitBatch ==
    /\ alive = TRUE
    /\ InitCmd /\ InitDirect /\ InitTrust
    /\ InitCacheIdle /\ InitWritersIdle /\ InitDummyIdle
    /\ batch = "collecting"
    /\ todo = <<>>
    /\ built = <<>>
    /\ supplied = {}
    /\ wrote = <<>>
    /\ overrides \in [{Dirs[i] : i \in DOMAIN Dirs} -> SUBSET Recipes]
    /\ runpc = [r \in Recipes |-> "idle"]
    /\ output = [r \in Recipes |-> NoReport]
    /\ result = [r \in Recipes |-> NoResult]
    /\ reportFile = [r \in Recipes |-> NoReport]
    /\ clock = 1
    /\ log = [r \in Recipes |-> <<>>]
    /\ cacheFile \in {NoFile, NotJson}
    /\ fs = [p \in Paths |-> Absent]

NextBatch ==
    \/ CollectRecipes
    \/ \E r \in Recipes : StartRun(r)
    \/ \E r \in Recipes : ToolSpawned(r)
    \/ \E r \in Recipes, code \in {0, 1}, items \in {<<>>, <<"p1">>} :
           ToolExits(r, code, items, TRUE)
    \/ \E r \in Recipes : Reaped(r)
    \/ \E r \in Recipes : CheckPhaseResume(r)
    \/ \E r \in Recipes : FullRunResume(r)
    \/ BatchEnds
    \/ SignalExit

SpecBatch == InitBatch /\ [][NextBatch]_vars

\* The run() of both recipes as tasks of one event loop, on one cache file.
InitGather ==
    /\ alive = TRUE
    /\ InitCmd /\ InitDirect /\ InitTrust /\ InitBatchIdle
    /\ InitCacheIdle /\ InitWritersIdle /\ InitDummyIdle
    /\ batch = "gather"
    /\ todo = <<"A.recipe", "B.recipe">>
    /\ runpc = [r \in Recipes |-> "idle"]
    /\ output = [r \in Recipes |-> NoReport]
    /\ result = [r \in Recipes |-> NoResult]
    /\ reportFile = [r \in Recipes |-> NoReport]
    /\ clock = 1
    /\ log = [r \in Recipes |-> <<>>]
    /\ cacheFile \in {NoFile, NotJson, Doc([n \in {"B.recipe"} |-> OldEntry])}
    /\ fs = [p \in Paths |-> Absent]

NextGather ==
    \/ \E r \in Recipes : GatherStart(r)
    \/ \E r \in Recipes : ToolSpawned(r)
    \/ \E r \in Recipes, items \in {<<>>, <<"p1">>} : ToolExits(r, 0, items, TRUE)
    \/ \E r \in Recipes : Reaped(r)
    \/ \E r \in Recipes : CheckPhaseResume(r)
    \/ \E r \in Recipes : FullRunResume(r)
    \/ GatherEnds
    \/ SignalExit

SpecGather == InitGather /\ [][NextGather]_vars

\* The recipe names a caller can supply: file names, and a relative path
\* into a subdirectory of the override directory.
FileNames == {<<Comp("A", ".recipe")>>, <<Comp("B", ".recipe")>>}
SubNames == {<<Comp("sub", ""), Comp("A", ".recipe")>>}

\* Runs that store entries, and then a later invocation with the same list.
InitLater ==
    /\ alive = TRUE
    /\ InitCmd /\ InitDirect /\ InitTrust /\ InitRunIdle
    /\ InitCacheIdle /\ InitWritersIdle /\ InitDummyIdle
    /\ todo = <<>>
    /\ overrides = [d \in {Dirs[i] : i \in DOMAIN Dirs} |-> {}]
    /\ built = <<>>
    /\ supplied \in SUBSET (FileNames \cup SubNames) \ {{}}
    /\ wrote = <<>>
    /\ cacheFile \in {NoFile, Doc(EmptyMap)} \cup {Doc([n \in {r} |-> OldEntry]) : r \in Recipes}
    /\ fs \in [Paths -> {Absent, Bare}]

NextLater ==
    \/ \E n \in FileNames \cup SubNames, p \in Paths : RunStores(n, p)
    \/ LaterInvocation

SpecLater == InitLater /\ [][NextLater]_vars

\* async_main on a recipe list of both names.
InitMain ==
    /\ alive = TRUE
    /\ InitCmd /\ InitDirect /\ InitTrust
    /\ InitCacheIdle /\ InitWritersIdle /\ InitDummyIdle
    /\ batch = FirstStage
    /\ todo = <<>>
    /\ built = <<>>
    /\ supplied = {}
    /\ wrote = <<>>
    /\ overrides \in {[d \in {Dirs[i] : i \in DOMAIN Dirs} |->
                          IF d = "d1" THEN S ELSE {}] : S \in {{"A.recipe"}, Recipes}}
    /\ runpc = [r \in Recipes |-> "idle"]
    /\ output = [r \in Recipes |-> NoReport]
    /\ result = [r \in Recipes |-> NoResult]
    /\ reportFile = [r \in Recipes |-> NoReport]
    /\ clock = 1
    /\ log = [r \in Recipes |-> <<>>]
    /\ cacheFile \in {NoFile, NotJson, Doc([n \in {"A.recipe"} |-> OldEntry])}
    /\ fs = [p \in Paths |-> Absent]

NextMain ==
    \/ MainStartup
    \/ CollectRecipes
    \/ \E r \in Recipes : StartRun(r)
    \/ \E r \in Recipes : ToolSpawned(r)
    \/ \E r \in Recipes, items \in {<<>>, <<"p2">>} : ToolExits(r, 0, items, TRUE)
    \/ \E r \in Recipes : Reaped(r)
    \/ \E r \in Recipes : CheckPhaseResume(r)
    \/ \E r \in Recipes : FullRunResume(r)
    \/ BatchEnds
    \/ SignalExit

SpecMain == InitMain /\ [][NextMain]_vars

Spec == SpecRun

(***************************************************************************)
(* Properties of Recipe.run                                                *)
(***************************************************************************)
Logged(r, e) == e \in Range(log[r])
\* Every occurrence of event e in the log of r comes after an occurrence of d.
After(r, d, e) ==
    \A k \in DOMAIN log[r] : log[r][k] = e => \E i \in 1..(k - 1) : log[r][i] = d
\* The entry this invocation saved for r (an older entry has timestamp 0).
SavedNow(r) ==
    /\ cacheFile.kind = "object"
    /\ r \in DOMAIN Loads(cacheFile.text)
    /\ Loads(cacheFile.text)[r].timestamp >= 1

\* C1: when the check-phase report of a run() has no downloaded items, the
\* full-run subprocess is never spawned, save_metadata_cache is not called
\* and nothing is stored for the recipe, and run() has returned exactly the
\* check-phase report.
C1_NoDownloadsSkipsFullRun ==
    \A r \in Recipes :
        (Logged(r, "check_end") /\ output[r].items = <<>>) =>
            /\ runpc[r] = "done"
            /\ output[r].phase = "check"
            /\ result[r] = Returned(output[r])
            /\ ~Logged(r, "save_called") /\ ~Logged(r, "run_full")
            /\ ~Logged(r, "spawn_full")
            /\ cmd[r] = IdleCmd /\ proc[r] = NoProc
            /\ ~SavedNow(r)

C1_Witness ==
    \E r \in Recipes :
        /\ runpc[r] = "done" /\ Logged(r, "check_end")
        /\ output[r].items = <<>> /\ result[r] = Returned(output[r])

\* C2: whenever the full-run subprocess of a run() has been spawned, the
\* check phase had ended and save_metadata_cache had returned before the
\* spawn, and the cache file holds the entry of that recipe, one record per
\* downloaded item of the check-phase report.
C2_CacheWrittenBeforeFullRun ==
    \A r \in Recipes :
        Logged(r, "spawn_full") =>
            /\ After(r, "check_end", "save_returned")
            /\ After(r, "save_returned", "spawn_full")
            /\ output[r].items # <<>>
            /\ SavedNow(r)
            /\ Len(Loads(cacheFile.text)[r].metadata) = Len(output[r].items)

C2_Witness ==
    \E r \in Recipes : Logged(r, "spawn_full") /\ SavedNow(r)

\* C3: once the cache write of a run() with downloaded items has succeeded,
\* run_full has been invoked with the command that has no --check flag, and
\* when run() returns, it returns the report compiled after the full run,
\* not the check-phase report.
C3_FullRunReportReturned ==
    \A r \in Recipes :
        Logged(r, "save_returned") =>
            /\ Logged(r, "run_full")
            /\ runpc[r] \in {"full", "done", "raised", "cancelled"}
            /\ runpc[r] = "full" =>
                   cmd[r].pc \in {"spawning", "waiting"} /\ cmd[r].args.argv = "run"
            /\ runpc[r] = "done" =>
                   /\ Logged(r, "spawn_full") /\ Logged(r, "full_end")
                   /\ result[r].kind = "report"
                   /\ result[r].report.phase = "full"
                   /\ result[r].report = reportFile[r]

C3_Witness ==
    \E r \in Recipes :
        /\ runpc[r] = "done" /\ Logged(r, "save_returned")
        /\ result[r].report.phase = "full" /\ output[r].phase = "check"
        /\ result[r].report.items # output[r].items

\* A step in which the run_cmd of a phase of r returns because the tool has
\* exited with a non-zero code.
NonZeroExitStep(r, phase) ==
    /\ runpc[r] = phase /\ cmd[r].pc = "waiting"
    /\ WaitComplete(cmd[r].args, proc[r]) /\ proc[r].code # 0
    /\ runpc'[r] \notin {phase, "cancelled"}

\* C4: a non-zero exit code of the tool makes neither phase raise: the
\* phase logs the error, compiles the report and returns it, and run() goes
\* on as the report says (it returns the report, or saves and starts the
\* full run, and fails only in _get_metadata or in the save).
C4_NonZeroExitNotRaised ==
    [][\A r \in Recipes :
          /\ NonZeroExitStep(r, "check") =>
                /\ output'[r] = reportFile[r]
                /\ Logged(r, "check_error")' /\ Logged(r, "check_end")'
                /\ ~HasDownloads(reportFile[r]) =>
                       runpc'[r] = "done" /\ result'[r] = Returned(reportFile[r])
                /\ HasDownloads(reportFile[r]) =>
                       \/ runpc'[r] = "full" /\ cmd'[r].args.argv = "run"
                       \/ /\ runpc'[r] = "raised"
                          /\ result'[r].msg \in {"_get_metadata", "save_metadata_cache"}
          /\ NonZeroExitStep(r, "full") =>
                /\ runpc'[r] = "done"
                /\ Logged(r, "full_error")'
                /\ result'[r] = Returned(reportFile[r])
      ]_vars

C4_Witness ==
    \E r \in Recipes :
        /\ runpc[r] = "done"
        /\ Logged(r, "check_error") /\ Logged(r, "full_error")
        /\ result[r].kind = "report"

(***************************************************************************)
(* Properties of run_cmd                                                   *)
(***************************************************************************)
\* C5: whatever the command, check and capture_output, a call whose
\* timeout elapsed has returned, not raised, the tuple of exit code -1,
\* empty stdout and the timeout message as stderr.
C5_TimeoutReturnsSentinel ==
    \A c \in Direct :
        hist[c].ev = "timeout" =>
            /\ hres[c].kind = "ret"
            /\ hres[c].rc = -1
            /\ hres[c].out = ""
            /\ hres[c].err = TimeoutMsg

C5_Witness ==
    \E c \in Direct :
        /\ hist[c].ev = "timeout" /\ hist[c].args.check /\ hist[c].args.capture
        /\ hres[c] = Ret(-1, "", TimeoutMsg)

\* C6: when the subprocess has exited by itself with status code, run_cmd
\* returns code if check is false, raises AutoPkgRunnerException (and
\* returns nothing) if check is true and code is not 0, and returns 0 in
\* both cases if code is 0.
C6_ExitStatusAndCheck ==
    \A c \in Direct :
        hist[c].ev = "exit" =>
            LET code == proc[c].code
                a == hist[c].args
            IN  /\ ~a.check => hres[c].kind = "ret" /\ hres[c].rc = code
                /\ (a.check /\ code # 0) =>
                       hres[c].kind = "exc" /\ hres[c].exc = "AutoPkgRunnerException"
                /\ code = 0 => hres[c].kind = "ret" /\ hres[c].rc = 0

C6_Witness ==
    \E c \in Direct :
        /\ hist[c].ev = "exit" /\ hist[c].args.check /\ proc[c].code = 1
        /\ hres[c].kind = "exc"

\* C7: when create_subprocess_exec fails because the executable is not
\* found or with another OS error, run_cmd raises AutoPkgRunnerException
\* whose cause is that error, with check true and with check false, and
\* returns no tuple.
C7_SpawnErrorRaises ==
    \A c \in Direct :
        (hist[c].ev = "spawnfail" /\ IsA(hist[c].raw, "OSError")) =>
            /\ hres[c].kind = "exc"
            /\ hres[c].exc = "AutoPkgRunnerException"
            /\ hres[c].cause = hist[c].raw

C7_Witness ==
    \E c \in Direct :
        /\ hist[c].ev = "spawnfail" /\ hist[c].raw = "PermissionError"
        /\ ~hist[c].args.check /\ hres[c].kind = "exc"

\* C8: a run_cmd that was cancelled while its subprocess was running (by
\* the cancellation of its task, or by SIGINT or SIGTERM) does not leave
\* the subprocess running.
C8_CancelTerminatesSubprocess ==
    \A c \in Direct :
        hist[c].ev = "cancel" => proc[c].st # "running"

(***************************************************************************)
(* Properties of the trust-info state                                      *)
(***************************************************************************)
\* A step in which caller t calls verify_trust_info().
VerifyCalled(t) ==
    /\ tpc[t] = "idle"
    /\ \/ tpc'[t] = "verify"
       \/ tpc'[t] = "idle" /\ tret'[t] # tret[t] /\ tret'[t].op = "verify"

\* C9: verify_trust_info() called in state TRUSTED or FAILED does not
\* invoke the tool, leaves the state as it is and returns the cached state.
C9_CachedStateReturned ==
    [][\A t \in Callers :
          (VerifyCalled(t) /\ trusted \in {"TRUSTED", "FAILED"}) =>
              /\ tpc'[t] = "idle" /\ cmd'[t] = cmd[t]
              /\ trusted' = trusted
              /\ tret'[t] = CallReturned("verify", IF trusted = "TRUSTED" THEN 1 ELSE 0)
      ]_vars

\* C10: verify_trust_info() called in state UNTESTED invokes the tool's
\* verify-trust-info subcommand, and when the call returns, the state is
\* TRUSTED if the exit code was 0 and FAILED for every other exit code (as
\* self._trusted == TrustInfoVerificationState.TRUSTED or FAILED tells),
\* and the value of that state is what the call returns.
C10_VerifySetsState ==
    [][\A t \in Callers :
          /\ (VerifyCalled(t) /\ trusted = "UNTESTED") =>
                /\ tpc'[t] = "verify" /\ cmd'[t].pc = "spawning"
                /\ cmd'[t].args.argv = "verify-trust-info"
                /\ trusted' = trusted
          /\ (tpc[t] = "verify" /\ tpc'[t] = "idle" /\ tret'[t].kind = "ret") =>
                /\ proc[t].code = 0 =>
                       /\ trusted' = "TRUSTED"
                       /\ Member(trusted') = Member("TRUSTED")
                       /\ tret'[t].val = 1
                /\ proc[t].code # 0 =>
                       /\ trusted' = "FAILED"
                       /\ Member(trusted') = Member("FAILED")
                       /\ Member(trusted') # Member("TRUSTED")
                       /\ tret'[t].val = 0
      ]_vars

C10_Witness ==
    \E t \in Callers :
        /\ tret[t] = CallReturned("verify", 1) /\ trusted = "TRUSTED"
        /\ \E u \in Callers : tret[u] = CallReturned("verify", 0)

\* A step in which the update_trust_info() of caller t ends with the tool
\* having exited by itself.
UpdateEnds(t) ==
    /\ tpc[t] = "update" /\ tpc'[t] = "idle" /\ alive'
    /\ cmd[t].pc = "waiting" /\ proc[t].st = "exited"

\* C11: update_trust_info() always invokes the tool's update-trust-info
\* subcommand, and when the tool has exited, with code 0 or with any other
\* code, the call leaves the state UNTESTED and returns a boolean: true for
\* exit code 0, false for every other exit code.
C11_UpdateResetsAndReturnsBool ==
    [][\A t \in Callers :
          /\ (tpc[t] = "idle" /\ tpc'[t] = "update") =>
                cmd'[t].pc = "spawning" /\ cmd'[t].args.argv = "update-trust-info"
          /\ UpdateEnds(t) =>
                /\ trusted' = "UNTESTED"
                /\ tret'[t] = CallReturned("update", IF proc[t].code = 0 THEN 1 ELSE 0)
      ]_vars

(***************************************************************************)
(* Properties of the metadata cache                                        *)
(***************************************************************************)
\* C12: after save calls made one after the other on one backing file, the
\* last of which returned, load returns a mapping that holds every name
\* that was saved or was in the file at first, and no other, each once in
\* the document and each with the entry saved last under it; the last save
\* left the entry of every other name as it was.
C12_SequentialSavesKeepEveryEntry ==
    lastSave.kind = "ret" =>
        LET ld == LoadMetadataCache(cacheFile)
            was == LoadMetadataCache(lastSave.before).map
        IN  /\ ld.err = ""
            /\ DOMAIN ld.map = DOMAIN expect
            /\ \A n \in DOMAIN expect : ld.map[n] = expect[n]
            /\ \A i, j \in DOMAIN cacheFile.text :
                   i # j => cacheFile.text[i][1] # cacheFile.text[j][1]
            /\ \A n \in Recipes \ {lastSave.name} :
                   /\ n \in DOMAIN ld.map <=> n \in DOMAIN was
                   /\ n \in DOMAIN was => ld.map[n] = was[n]

C12_Witness ==
    /\ nsaves >= 2 /\ lastSave.kind = "ret" /\ lastSave.name = "A.recipe"
    /\ lastLoad.kind = "ret" /\ lastLoad.before = cacheFile
    /\ DOMAIN lastLoad.map = Recipes
    /\ lastLoad.map["A.recipe"].timestamp = 3
    /\ lastLoad.map["B.recipe"].timestamp = 2

\* C13: a load that follows a save that returned yields, under the name
\* that was saved, an entry with the timestamp that was saved and the
\* records that were saved: as many, in the same order, each with the same
\* keys and the same values.
C13_SaveLoadRoundTrip ==
    (lastSave.kind = "ret" /\ lastLoad.kind = "ret" /\ lastLoad.before = cacheFile) =>
        /\ lastSave.name \in DOMAIN lastLoad.map
        /\ LET e == lastLoad.map[lastSave.name]
               o == lastSave.entry
           IN  /\ e.timestamp = o.timestamp
               /\ Len(e.metadata) = Len(o.metadata)
               /\ \A i \in DOMAIN o.metadata :
                      /\ DOMAIN e.metadata[i] = DOMAIN o.metadata[i]
                      /\ \A k \in DOMAIN o.metadata[i] :
                             e.metadata[i][k] = o.metadata[i][k]

C13_Witness ==
    /\ lastSave.kind = "ret" /\ lastSave.entry.timestamp = 3
    /\ lastLoad.kind = "ret" /\ lastLoad.before = cacheFile
    /\ lastLoad.map[lastSave.name] = lastSave.entry

\* The place of the file operation op of writer w among the operations.
Pos(w, op) == CHOOSE i \in DOMAIN wlog : wlog[i] = <<w, op>>

\* C14: when two processes have each completed a save for a recipe of their
\* own on one file, and the one that wrote last had loaded the document
\* before the other wrote, the file holds the entry of the last writer and
\* not the entry the other saved: the state in which an entry is missing
\* after both saves is reached.
C14_LastWriterWins ==
    \A w, v \in Writers :
        ( /\ w # v /\ wpc[w] = "done" /\ wpc[v] = "done"
          /\ Pos(v, "load") < Pos(w, "write")
          /\ Pos(w, "write") < Pos(v, "write") ) =>
            LET m == Loads(cacheFile.text)
            IN  /\ cacheFile.kind = "object"
                /\ WName(v) \in DOMAIN m
                /\ m[WName(v)] = wstored[v].metadata
                /\ WName(w) \in DOMAIN m <=> WName(w) \in DOMAIN wstored[v].stored
                /\ WName(w) \in DOMAIN m => m[WName(w)] # wstored[w].metadata

C14_Witness ==
    /\ \A w \in Writers : wpc[w] = "done"
    /\ \E w \in Writers : WName(w) \notin DOMAIN Loads(cacheFile.text)

\* C15: a load on a path where no file exists returns an empty cache and
\* leaves the empty document at the path; a load on a path that holds a
\* well-formed document returns the content of the document and leaves the
\* file as it was.
C15_LoadCreatesOrReads ==
    /\ (lastLoad.kind # "none" /\ lastLoad.before.kind = "absent") =>
           /\ lastLoad.kind = "ret"
           /\ lastLoad.map = EmptyMap
           /\ lastLoad.after = ObjectText(<<>>)
    /\ (lastLoad.kind # "none" /\ lastLoad.before.kind = "object") =>
           /\ lastLoad.kind = "ret"
           /\ lastLoad.after = lastLoad.before
           /\ lastLoad.before = cacheFile => lastLoad.map = expect

C15_Witness ==
    /\ lastLoad.kind = "ret" /\ lastLoad.before.kind = "absent"
    /\ nsaves = 0 /\ cacheFile = ObjectText(<<>>)

C15_WitnessRead ==
    /\ lastLoad.kind = "ret" /\ lastLoad.before = ObjectText(HandText)
    /\ lastLoad.map = HandMap /\ cacheFile = ObjectText(HandText)

\* C16: a load of a document that exists and is not a well-formed mapping
\* of recipe names to entries (text that is not JSON, or JSON that is not
\* an object: null, a number, a list) fails with AutoPkgRunnerException; a
\* load fails with no other error.
C16_LoadFailsWithCorruptionError ==
    /\ (lastLoad.kind # "none" /\ lastLoad.before \in BadDocs) =>
           lastLoad.kind = "exc" /\ lastLoad.err = "AutoPkgRunnerException"
    /\ lastLoad.kind = "exc" => lastLoad.err = "AutoPkgRunnerException"

(***************************************************************************)
(* Properties of create_dummy_files                                        *)
(***************************************************************************)
\* The records of the requested recipes, and the states of a call.
Requested == Visited(RecipeOrder, dlist, dcache)
Called == Len(dhist) >= 2
HasKey(d, k) == k \in DOMAIN d

\* C17: for every record of a requested recipe that has file_path and
\* file_size (0 included) and whose file_path did not exist (not before the
\* call, and no earlier record names it), the call has created a file at
\* file_path whose length is file_size, with the etag and last-modified
\* attributes of the record when the record has them.
C17_DummyFileCreated ==
    Called =>
        \A i \in DOMAIN Requested :
            LET d == Requested[i]
            IN  ( /\ HasKey(d, "file_path") /\ HasKey(d, "file_size")
                  /\ ~dhist[1][d["file_path"]].exists
                  /\ \A j \in 1..(i - 1) :
                         HasKey(Requested[j], "file_path") =>
                             Requested[j]["file_path"] # d["file_path"] ) =>
                    LET f == dhist[2][d["file_path"]]
                    IN  /\ f.exists
                        /\ f.size = d["file_size"]
                        /\ HasKey(d, "etag") => f.etag = d["etag"]
                        /\ HasKey(d, "last_modified") => f.lm = d["last_modified"]

\* C18: a call of create_dummy_files leaves every file that existed before
\* the call as it was: its length and its attributes.
C18_ExistingFileUntouched ==
    \A k \in 2..Len(dhist) :
        \A p \in Paths : dhist[k - 1][p].exists => dhist[k][p] = dhist[k - 1][p]

C18_Witness ==
    /\ Called
    /\ dhist[1]["p1"].exists /\ ~dhist[1]["p2"].exists /\ dhist[2]["p2"].exists
    /\ \E i \in DOMAIN Requested :
           /\ GetStr(Requested[i], "file_path") /\ GetSize(Requested[i])
           /\ Requested[i]["file_path"] = "p1"
           /\ Requested[i]["file_size"] # dhist[1]["p1"].size

\* A record that is skipped for a missing file_path or file_size.
Lacks(d) == ~HasKey(d, "file_path") \/ ~HasKey(d, "file_size")

\* C19: a record that lacks file_path or file_size makes no file (every
\* file the call made is that of a record that has both), and the call
\* goes on after it: the file of every later record that has a file_path
\* and a file_size of 1 or more exists after the call, in the same recipe
\* and in the recipes that follow.
C19_IncompleteRecordSkipped ==
    Called =>
        /\ \A p \in Paths :
              (~dhist[1][p].exists /\ dhist[2][p].exists) =>
                  \E i \in DOMAIN Requested :
                      /\ ~Lacks(Requested[i])
                      /\ Requested[i]["file_path"] = p
        /\ \A i \in DOMAIN Requested :
              (~Lacks(Requested[i]) /\ Requested[i]["file_size"] >= 1) =>
                  dhist[2][Requested[i]["file_path"]].exists

C19_Witness ==
    /\ Called /\ dlist = Recipes /\ Len(Requested) = 3
    /\ ~HasKey(Requested[1], "file_path") /\ HasKey(Requested[1], "file_size")
    /\ ~Lacks(Requested[2]) /\ Requested[2]["file_path"] = "p1"
    /\ ~Lacks(Requested[3]) /\ Requested[3]["file_path"] = "p2"
    /\ \A p \in Paths : ~dhist[1][p].exists /\ dhist[2][p].exists

\* C20: a second call of create_dummy_files with the same cache and the
\* same recipe list leaves the files (which exist, their lengths, their
\* attributes) as the first call left them.
C20_DummyFilesIdempotent ==
    \A k \in 3..Len(dhist) : dhist[k] = dhist[2]

C20_Witness ==
    /\ Len(dhist) >= 3
    /\ dhist[2] # dhist[1]
    /\ dhist[3] = dhist[2]

(***************************************************************************)
(* Properties of run_cmd: the timeout path                                 *)
(***************************************************************************)
\* A step in which the run_cmd of c ends on its timeout.
TimeoutStep(c) == hist[c].ev = "none" /\ hist'[c].ev = "timeout"

C29_SentinelMeansTimeout ==
    \A c \in Direct :
        (hres[c].kind = "ret" /\ hres[c].rc = TimeoutRC) => hist[c].ev = "timeout"

(***************************************************************************)
(* Properties of the trust-info state over sequences of calls              *)
(***************************************************************************)
\* C24: over calls of verify_trust_info and update_trust_info made one
\* after the other on one Recipe, the state changes only from UNTESTED to
\* TRUSTED or FAILED, when a verify ends, and from any state to UNTESTED,
\* when an update ends; it never goes from TRUSTED to FAILED or from FAILED
\* to TRUSTED in one step.
C24_TrustTransitions ==
    [][ /\ trusted' # trusted =>
              \/ /\ trusted = "UNTESTED" /\ trusted' \in {"TRUSTED", "FAILED"}
                 /\ \E t \in Callers : tpc[t] = "verify" /\ tpc'[t] = "idle"
              \/ /\ trusted' = "UNTESTED"
                 /\ \E t \in Callers : tpc[t] = "update" /\ tpc'[t] = "idle"
        /\ ~(trusted = "TRUSTED" /\ trusted' = "FAILED")
        /\ ~(trusted = "FAILED" /\ trusted' = "TRUSTED")
      ]_vars

\* C25: the first verify_trust_info() that is called after an
\* update_trust_info() has returned invokes verify-trust-info again, also
\* when a verify_trust_info() that was called before the update has ended
\* after it.
C25_VerifyAfterUpdateRechecks ==
    [][\A t \in Callers :
          (VerifyCalled(t) /\ fresh) =>
              /\ tpc'[t] = "verify" /\ cmd'[t].pc = "spawning"
              /\ cmd'[t].args.argv = "verify-trust-info"
      ]_vars

\* C26: between two updates verify-trust-info is invoked at most once for
\* the Recipe, however the calls of verify_trust_info() interleave.
C26_SingleFlight == nverify <= 1

(***************************************************************************)
(* Properties of process_recipe_list                                       *)
(***************************************************************************)
\* The names process_recipe_list built a Recipe for.
Batch == {built[i][1] : i \in DOMAIN built}
InFlight(r) == proc[r].st = "running"

\* C21: when the run() of a recipe of the batch has failed with an
\* infrastructure error (AutoPkgRunnerException of a spawn failure or of a
\* corrupt cache file) and process_recipe_list is over, every recipe of the
\* batch has been run and process_recipe_list has returned.
C21_FailedRecipeDoesNotStopBatch ==
    \A r \in Recipes :
        ( /\ alive /\ batch \notin {"collecting", "looping"}
          /\ runpc[r] = "raised" /\ result[r].exc = "AutoPkgRunnerException" ) =>
            /\ batch = "returned"
            /\ \A q \in Batch : runpc[q] \in {"done", "raised"}

\* C22: while the run() of one recipe is suspended on its subprocess, the
\* run() of the next recipe of the batch can start.
C22_RecipesRunConcurrently ==
    \A r \in Recipes :
        (alive /\ batch = "looping" /\ Active(r) /\ todo # <<>>) =>
            ENABLED StartRun(Head(todo))

\* No two recipes of a batch have their subprocesses running at once.
OneInFlight ==
    \A r, q \in Recipes : (InFlight(r) /\ InFlight(q)) => r = q

\* C30: once process_recipe_list has made its Recipe objects, there is at
\* most one for each name; the one of a name is made of the first override
\* directory, in list order, that holds a file of the name; and for a name
\* that no directory holds there is none, and no run and no subprocess.
C30_FirstOverrideDirectoryWins ==
    batch # "collecting" =>
        \A n \in Recipes :
            LET idx == {i \in DOMAIN built : built[i][1] = n}
                holds == {k \in DOMAIN Dirs : n \in overrides[Dirs[k]]}
            IN  /\ Cardinality(idx) <= 1
                /\ holds = {} =>
                       /\ idx = {}
                       /\ runpc[n] = "idle" /\ log[n] = <<>> /\ proc[n].st = "none"
                /\ holds # {} =>
                       /\ idx # {}
                       /\ \A i \in idx : \E k \in holds :
                              /\ built[i][2] = Dirs[k]
                              /\ \A j \in holds : k <= j

\* A name that both directories hold, and a name that none holds.
C30_Witness ==
    /\ batch = "returned"
    /\ overrides["d1"] = {"B.recipe"} /\ overrides["d2"] = {"B.recipe"}
    /\ built = << <<"B.recipe", "d1">> >>
    /\ runpc["B.recipe"] = "done" /\ runpc["A.recipe"] = "idle"

\* Both names, in both directories.
C30_WitnessBoth ==
    /\ batch = "returned"
    /\ overrides["d1"] = Recipes /\ overrides["d2"] = Recipes
    /\ built = << <<"B.recipe", "d1">>, <<"A.recipe", "d1">> >>
    /\ \A r \in Recipes : runpc[r] = "done"

(***************************************************************************)
(* Properties of the entry run() stores, and of the requested recipes of   *)
(* create_dummy_files                                                      *)
(***************************************************************************)
\* A step in which the run_cmd of the check phase of r returns.
CheckEndStep(r) ==
    runpc[r] = "check" /\ ~Logged(r, "check_end") /\ Logged(r, "check_end")'

\* The record of a file, as _get_metadata reads it.
RecordOf(p, files) ==
    [etag |-> files[p].etag, file_size |-> files[p].size,
     last_modified |-> files[p].lm, file_path |-> p]

\* C27: when the check phase of run() ends with a report whose
\* downloaded-items list is not empty, the cache file can be loaded and the
\* files of the items that have a download path are on disk with both
\* attributes, run() goes on to the full run and the cache file holds, under
\* the name of the recipe, one record for each item in the order of the
\* report, the record of an item with a path being the path, size, etag and
\* last-modified of its file; an item without a download path is no failure.
C27_EntryHasOneRecordPerItem ==
    [][\A r \in Recipes :
          LET items == reportFile[r].items
          IN  ( /\ CheckEndStep(r)
                /\ items # <<>>
                /\ LoadMetadataCache(cacheFile).err = ""
                /\ \A i \in DOMAIN items :
                       items[i] \in Paths => FileError(fs[items[i]]) = "" ) =>
                  /\ runpc'[r] = "full"
                  /\ cacheFile'.kind = "object"
                  /\ r \in DOMAIN Loads(cacheFile'.text)
                  /\ LET md == Loads(cacheFile'.text)[r].metadata
                     IN  /\ Len(md) = Len(items)
                         /\ \A i \in DOMAIN items :
                                items[i] \in Paths => md[i] = RecordOf(items[i], fs)]_vars

\* The paths at which the first call of create_dummy_files has made a file.
Created == {p \in Paths : ~dhist[1][p].exists /\ dhist[2][p].exists}

\* C28: every file that create_dummy_files has made is the file_path of a
\* record of a recipe that is both in recipe_list and in the cache; when no
\* name of recipe_list is in the cache, the call leaves every file as it was.
C28_OnlyRequestedRecipes ==
    Called =>
        /\ \A p \in Created :
               \E n \in dlist \cap DOMAIN dcache :
                   \E i \in DOMAIN dcache[n].metadata :
                       /\ HasKey(dcache[n].metadata[i], "file_path")
                       /\ dcache[n].metadata[i]["file_path"] = p
        /\ dlist \cap DOMAIN dcache = {} => dhist[2] = dhist[1]

\* A cached recipe that is not requested, beside one that is.
C28_Witness ==
    /\ Called /\ dlist = {"B.recipe"} /\ DOMAIN dcache = Recipes
    /\ \E i \in DOMAIN dcache["A.recipe"].metadata :
           /\ ~Lacks(dcache["A.recipe"].metadata[i])
           /\ dcache["A.recipe"].metadata[i]["file_path"] = "p1"
    /\ Created = {"p2"}

\* A requested recipe that is not in the cache.
C28_WitnessNoEntry ==
    /\ Called /\ dlist = {"B.recipe"} /\ DOMAIN dcache = {"A.recipe"}
    /\ \E i \in DOMAIN dcache["A.recipe"].metadata :
           /\ ~Lacks(dcache["A.recipe"].metadata[i])
           /\ dcache["A.recipe"].metadata[i]["file_path"] = "p1"
    /\ \A p \in Paths : ~dhist[2][p].exists

(***************************************************************************)
(* Properties of the subprocesses of one run()                             *)
(***************************************************************************)
\* How often event e is in the log of r.
Count(r, e) == Cardinality({k \in DOMAIN log[r] : log[r][k] = e})
Over(r) == runpc[r] \in {"done", "raised"}

\* C31, as stated: a run() that is over has spawned exactly one check-phase
\* subprocess and at most one full-run subprocess, the latter after the
\* check phase had ended.
C31_ExactlyOneCheckSpawn ==
    \A r \in Recipes :
        Over(r) =>
            /\ Count(r, "spawn_check") = 1
            /\ Count(r, "spawn_full") <= 1
            /\ After(r, "check_end", "spawn_full")

\* C31, amended: a run() spawns at most one check-phase subprocess and at
\* most one full-run subprocess; the check phase ends only after its
\* subprocess was spawned, and the full-run subprocess is spawned only after
\* the check phase has ended and its report is compiled; a run() that is
\* over has spawned no check-phase subprocess only when the spawn itself
\* failed, and then run() has raised without a report.
C31_AtMostOneSpawnPerPhase ==
    \A r \in Recipes :
        /\ Count(r, "spawn_check") <= 1
        /\ Count(r, "spawn_full") <= 1
        /\ After(r, "spawn_check", "check_end")
        /\ After(r, "check_end", "spawn_full")
        /\ Logged(r, "spawn_full") => output[r].phase = "check"
        /\ Over(r) =>
               \/ Count(r, "spawn_check") = 1
               \/ /\ Count(r, "spawn_check") = 0
                  /\ runpc[r] = "raised"
                  /\ result[r].cause \in SpawnErrors
                  /\ ~Logged(r, "check_end")

C31_Witness ==
    \E r \in Recipes :
        /\ runpc[r] = "done"
        /\ Count(r, "spawn_check") = 1 /\ Count(r, "spawn_full") = 1

\* A run() whose check-phase subprocess could not be spawned.
C31_WitnessSpawnFailure ==
    \E r \in Recipes :
        runpc[r] = "raised" /\ Count(r, "spawn_check") = 0

\* A cache file that cannot be parsed.
Corrupt(file) == file.kind = "notjson"
\* The run() of r has raised out of save_metadata_cache.
SaveFailed(r) == result[r].kind = "exc" /\ result[r].msg = "save_metadata_cache"

\* C32: when run() calls save_metadata_cache and the cache file cannot be
\* parsed, run() raises the error of the save (AutoPkgRunnerException), the
\* file is left as it was and run_full is not called; and once a run() has
\* raised out of the save, the file stays as it is and no full-run
\* subprocess is spawned for the recipe.
C32_CorruptCacheStopsRun ==
    [][\A r \in Recipes :
          /\ (CheckEndStep(r) /\ Logged(r, "save_called")' /\ Corrupt(cacheFile)) =>
                 /\ runpc'[r] = "raised"
                 /\ SaveFailed(r)'
                 /\ result'[r].exc = "AutoPkgRunnerException"
                 /\ cacheFile' = cacheFile
                 /\ cmd'[r] = IdleCmd
                 /\ ~Logged(r, "run_full")' /\ ~Logged(r, "spawn_full")'
          /\ SaveFailed(r) =>
                 /\ SaveFailed(r)'
                 /\ cacheFile' = cacheFile
                 /\ ~Logged(r, "spawn_full")'
                 /\ proc'[r].st # "running"]_vars

C32_Witness ==
    \E r \in Recipes :
        /\ SaveFailed(r) /\ Logged(r, "save_called") /\ Corrupt(cacheFile)
        /\ batch = "raised"

(***************************************************************************)
(* Properties of the run() coroutines of one event loop                    *)
(***************************************************************************)
\* C33: for every interleaving of the run() coroutines of the two recipes
\* on one event loop and one cache file, once save_metadata_cache has
\* returned in the run() of a recipe, the file holds the entry of that
\* recipe, one record per downloaded item of its check-phase report; so it
\* does when every run() has ended.
C33_NoLostEntryOnOneLoop ==
    \A r \in Recipes :
        Logged(r, "save_returned") =>
            /\ SavedNow(r)
            /\ Len(Loads(cacheFile.text)[r].metadata) = Len(output[r].items)

\* Both run() were suspended in their check phase at once, both have saved
\* and both have ended.
C33_Witness ==
    /\ batch = "returned"
    /\ \A r \in Recipes :
           /\ runpc[r] = "done" /\ Logged(r, "save_returned") /\ SavedNow(r)
           /\ Loads(cacheFile.text)[r].timestamp \in {1, 2}
    /\ Loads(cacheFile.text)["A.recipe"].timestamp # Loads(cacheFile.text)["B.recipe"].timestamp

(***************************************************************************)
(* Properties of the name a recipe is stored under                         *)
(***************************************************************************)
\* Every supplied name is a file name (no directory part).
Plain == \A n \in supplied : Len(n) = 1
\* The later invocation has called create_dummy_files.
Later == batch = "later"

SubNameStoredUnderLastComponent ==
    \A n \in DOMAIN wrote :
        Len(n) > 1 => /\ wrote[n].key = CompText(n[Len(n)])
                      /\ wrote[n].key # PathText(n)
                      /\ Later => PathText(n) \notin DOMAIN dcache

(***************************************************************************)
(* Properties of async_main                                                *)
(***************************************************************************)
\* The run() of r has begun, or a subprocess of r exists.
Begun(r) == log[r] # <<>> \/ proc[r].st # "none" \/ runpc[r] # "idle"
DummyFilesDone == dhist # <<>>

\* C35: in async_main no run() of a recipe begins and no subprocess of a
\* recipe is spawned before create_dummy_files has returned; the call works
\* on the cache that load_metadata_cache returned at startup; and after it
\* create_dummy_files is not called again: the cache it was given and the
\* files it made stay as they are, and a file changes only when a tool
\* process writes it, whatever entries the runs store.
C35_DummyFilesBeforeAnySpawn ==
    [][/\ \A r \in Recipes : Begun(r)' => DummyFilesDone'
       /\ (~DummyFilesDone /\ DummyFilesDone') =>
              /\ \A r \in Recipes : ~Begun(r)
              /\ dcache' = LoadMetadataCache(cacheFile).map
              /\ dhist' = <<fs, CreateDummyFiles(Recipes, dcache', fs)>>
       /\ DummyFilesDone =>
              /\ dhist' = dhist /\ dcache' = dcache /\ dlist' = dlist
              /\ fs' # fs => \E r \in Recipes :
                                 proc[r].st = "running" /\ proc'[r].st = "exited"]_vars

\* A dummy file was made at startup, and later a run() has stored an entry
\* for another file and has ended.
C35_Witness ==
    /\ batch = "returned" /\ DummyFilesDone
    /\ ~dhist[1]["p1"].exists /\ dhist[2]["p1"].exists /\ ~dhist[2]["p2"].exists
    /\ \E r \in Recipes :
           /\ runpc[r] = "done" /\ Logged(r, "spawn_full") /\ SavedNow(r)
           /\ Loads(cacheFile.text)[r].metadata[1].file_path = "p2"
           /\ r \notin DOMAIN dcache \/ dcache[r] # Loads(cacheFile.text)[r]

(***************************************************************************)
(* Termination of run_cmd                                                  *)
(***************************************************************************)
\* run_cmd is suspended in slot c.
Suspended(c) == cmd[c].pc \in {"spawning", "waiting"}
\* The call of slot c is over: run_cmd has returned or raised.
Ended(c) == hres[c].kind # "none"

\* C36: a call of run_cmd with a timeout that is suspended at the spawn or
\* at the wait is over in the end, whatever the subprocess does; and a call
\* without a timeout that has spawned its subprocess and is over by itself
\* (not cancelled) is over because the subprocess has exited by itself, its
\* exit is known and, when output is captured, its pipes are closed.
C36_TimeoutBoundsRunCmd ==
    /\ \A c \in Direct : (Suspended(c) /\ cmd[c].args.timeout) ~> Ended(c)
    /\ [](\A c \in Direct :
            (hist[c].ev \notin {"none", "tokenize", "spawnfail", "cancel"}
                 /\ ~hist[c].args.timeout) =>
                /\ hist[c].ev = "exit"
                /\ proc[c].st = "exited" /\ proc[c].reaped /\ proc[c].sig = "none"
                /\ hist[c].args.capture => proc[c].eof)

\* A call with a timeout has returned although its subprocess had not
\* exited and its pipes are still open.
C36_Witness ==
    \E c \in Direct :
        /\ Ended(c) /\ hist[c].ev = "timeout" /\ hist[c].args.timeout
        /\ hist[c].args.capture /\ proc[c].sig = "KILL" /\ ~proc[c].eof /\ ~proc[c].reaped

\* A call without a timeout stays suspended while its subprocess runs.
NoTimeoutWaitsForExit ==
    \A c \in Direct :
        (cmd[c].pc = "waiting" /\ ~cmd[c].args.timeout /\ proc[c].st = "running") =>
            ~ENABLED DirectFinish(c)

(***************************************************************************)
(* The state at the return of verify_trust_info                            *)
(***************************************************************************)
\* A step in which the verify_trust_info() of caller t returns a value.
VerifyReturns(t) ==
    tret'[t] # tret[t] /\ tret'[t].op = "verify" /\ tret'[t].kind = "ret"

\* C37: whenever verify_trust_info() returns a value, the state of the
\* Recipe is TRUSTED or FAILED and does not compare equal to UNTESTED, and
\* the value is true exactly when the state is TRUSTED, however the calls of
\* verify_trust_info() and update_trust_info() interleave.
C37_VerifyReturnsSettledState ==
    [][\A t \in Callers :
          VerifyReturns(t) =>
              /\ trusted' \in {"TRUSTED", "FAILED"}
              /\ ~IsUntested(trusted')
              /\ tret'[t].val = 1 <=> Member(trusted') = Member("TRUSTED")
      ]_vars
====
